---------------------------- MODULE Spec2Model ----------------------------
(***************************************************************************)
(* RailWiseApi: ingestion of train-performance records, the idempotent     *)
(* Loader, the daily rollup, the provider HTTP client with bounded retry,  *)
(* and the Job Ledger that wraps ingest and metrics runs.                  *)
(*                                                                         *)
(* Specifications:                                                         *)
(*   Spec        Loader (load_events) and Aggregator (run_daily_slot_aggs) *)
(*   SpecHttp    one post_with_retry call under every attempt outcome      *)
(*   SpecMetrics compute_slot_metrics / compute_slot_metrics_daytype       *)
(*   SpecJobs    one ingest run (run_ingest.main around HspSource.ingest)  *)
(*               or one metrics run, with the Job Ledger                   *)
(*   SpecPlanner one ingest run up to the end of the chunked fetch, under  *)
(*               every plan of dates, time range and window step           *)
(*   SpecScoring the scoring functions on bounded arguments                *)
(*   SpecEngine  the values day-type metrics runs compute from daily rows  *)
(*   SpecQuery   GET /v1/reliability over bounded tables                   *)
(*   SpecCalendar rollups, day-type metrics runs and queries over nine     *)
(*               days of services                                          *)
(*   SpecLoaders two load_events calls side by side in two sessions        *)
(*   SpecPublish a day-type metrics run with a query reading meanwhile     *)
(*   SpecBackfill one backfill_hsp run, then queries                       *)
(***************************************************************************)
EXTENDS Integers, Sequences, FiniteSets, TLC

VARIABLES
    \* ---- Store: raw_service_events / daily_slot_agg, and the Loader ----
    raw,          \* raw_service_events: sequence of stored rows (index = row id)
    agg,          \* daily_slot_agg: group key -> counts
    lpc,          \* position of load_events: "idle" | "loop"
    events,       \* the batch handed to load_events
    li,           \* loop index i of load_events (events processed so far)
    inserted,     \* load_events: local counter
    skipped,      \* load_events: local counter
    run_id,       \* source_run_id of the running/last load
    submitted,    \* events handed to load_events so far, over all calls
    uncommitted,  \* rows the session inserted since its last commit
    lastResult,   \* dict returned by the last load_events call
    lastOp,       \* the last Store operation that ran (kind, parameters)
    \* ---- post_with_retry ----
    retries,      \* cfg.retries
    hpc,          \* "idle" | "request" | "backoff" | "returned" | "raised"
    attempt,      \* loop variable of post_with_retry
    nreq,         \* client.post calls issued by the current call
    sleeps,       \* attempts after which sleep_backoff ran, in order
    last_err,     \* last_err of post_with_retry (None or an error)
    raised,       \* the error post_with_retry raised to its caller
    response,     \* the response whose JSON post_with_retry returned
    \* ---- Job Ledger (job_runs) ----
    ledger,       \* committed job_runs rows: run_id -> [job_name, status, meta]
    ledgerLog,    \* every status committed to job_runs, in order: <<run_id, status>>
    \* ---- compute_slot_metrics / compute_slot_metrics_daytype ----
    mpc,          \* "idle" | "load" | "loop" | "except" | "returned" | "raised"
    mrun,         \* run_id of the metrics run
    variant,      \* "slot_metrics" | "slot_metrics_daytype": the table written
    commit,       \* the commit argument
    slot_count,   \* len(slot_to_rows): groups the run has to write
    operators_seen, \* len(operator_to_rows)
    slots_written, \* local counter
    metrics,      \* both metric tables as the run's session sees them
    metricsCommitted, \* both metric tables as committed
    \* ---- run_ingest.main around HspSource.ingest ----
    ipc,          \* position of the ingest run
    irun,         \* run_id of the ingest run
    args,         \* from/to date and time, days, and the cfg of the WindowPlanner
    dates,        \* dates of fetch_service_metrics_chunked
    cur,          \* cur of time_windows, in minutes after 2000-01-01 00:00
    windows,      \* windows of time_windows: <<from HHMM, to HHMM>> pairs
    payloads,     \* <<date, from_time, to_time>> of every chunk request, in order
    chunk_results, \* "Services" of every chunk response, in order
    details_json, \* the serviceDetails response in hand
    max_details,  \* cfg.max_details
    total_requests, \* len(dates) * len(windows)
    req_idx,      \* chunk requests that have returned
    merged_services, \* merged_services of fetch_service_metrics_chunked
    rids,         \* unique RIDs, in first-seen order
    service_templates, \* rid -> (gbtt_ptd, gbtt_pta, toc_code)
    idx,          \* RIDs the details loop has finished with
    ievents,      \* events of HspSource.ingest
    details_fetched,
    details_failed,
    invalid_skipped,
    ierror,       \* the exception main's except clause handles: where it arose
    budget_exhausted, \* requests of the run that ran out of attempts, by phase
    \* ---- metric values: compute_slot_metric, and GET /v1/reliability ----
    slot_metrics_daytype, \* the slot_metrics_daytype table: key -> values
    today,        \* CURRENT_DATE of the database
    scored,       \* the last scoring call: its arguments and what it returned
    query,        \* the parameters of the last GET /v1/reliability
    reply,        \* its answer: [status, body]
    \* ---- concurrent database sessions ----
    sessions,     \* load_events calls running side by side: session -> locals
    reader,       \* a GET /v1/reliability in progress: what its SELECTs saw
    \* ---- backfill_hsp ----
    backfill      \* position, configuration and subprocesses run so far

storeVars == <<raw, agg, lpc, events, li, inserted, skipped, run_id, submitted,
               uncommitted, lastResult, lastOp>>

httpVars == <<retries, hpc, attempt, nreq, sleeps, last_err, raised, response>>

ledgerVars == <<ledger, ledgerLog>>

metricsVars == <<mpc, mrun, variant, commit, slot_count, operators_seen,
                 slots_written, metrics, metricsCommitted>>

ingestVars == <<ipc, irun, args, dates, cur, windows, payloads, chunk_results,
                details_json, max_details, total_requests, req_idx,
                merged_services, rids, service_templates, idx, ievents,
                details_fetched, details_failed, invalid_skipped, ierror,
                budget_exhausted>>

servingVars == <<slot_metrics_daytype, today, scored, query, reply>>

concurrentVars == <<sessions, reader, backfill>>

vars == <<storeVars, httpVars, ledgerVars, metricsVars, ingestVars,
          servingVars, concurrentVars>>

\* Optional values (Python None, SQL NULL): <<>> is None, <<v>> holds v.
None == <<>>
Some(v) == <<v>>

(***************************************************************************)
(* Bounds of the model.                                                    *)
(***************************************************************************)
MaxBatch == 2
MaxSubmitted == 3
MaxRetries == 3
MaxChunks == 2
MaxSlots == 1001

(***************************************************************************)
(* CanonicalServiceEvent values handed to the Loader.  Dates are day       *)
(* ordinals counted from a Sunday, so EXTRACT(DOW) of day d is d % 7.      *)
(***************************************************************************)
FromLoc == "RDG"
ToLoc == "PAD"
Outcomes == {"cancelled", "ontime", "late"}

Timestamp(d, m, s) == [date |-> d, min |-> m, sec |-> s]

\* datetime.isoformat(): date, hour, minute, second of the zoned timestamp.
isoformat(ts) == <<ts.date, ts.min \div 60, ts.min % 60, ts.sec>>

\* sha1 over "origin|destination|operator|service_date|sched_dep_iso": equal
\* exactly when the five joined fields are equal.
make_service_key(origin, destination, operator, service_date, sched_dep_iso) ==
    <<origin, destination, operator, service_date, sched_dep_iso>>

AddMinutes(ts, k) == Timestamp(ts.date, ts.min + k, ts.sec)

DelayOf(o) == IF o = "late" THEN 9 ELSE 3

CanonicalServiceEvent(d, op, m, s, o) ==
    LET dep == Timestamp(d, m, s)
        arr == AddMinutes(dep, 30)
    IN  [source |-> "hsp",
         source_event_id |-> "rid",
         service_date |-> d,
         operator |-> op,
         origin |-> FromLoc,
         destination |-> ToLoc,
         scheduled_departure_ts |-> dep,
         scheduled_arrival_ts |-> Some(arr),
         actual_arrival_ts |-> IF o = "cancelled" THEN None
                               ELSE Some(AddMinutes(arr, DelayOf(o))),
         cancelled |-> (o = "cancelled"),
         arrival_delay_minutes |-> IF o = "cancelled" THEN None
                                   ELSE Some(DelayOf(o)),
         service_key |-> make_service_key(FromLoc, ToLoc, op, d, isoformat(dep))]

\* The services of the corridor: GW has two departures inside the same
\* minute on day 5 (a Friday), XC one on day 6 (a Saturday).
Services ==
    {<<5, "GW", 490, 0>>, <<5, "GW", 490, 30>>, <<6, "XC", 490, 0>>}

EventUniverse ==
    {CanonicalServiceEvent(sv[1], sv[2], sv[3], sv[4], o) :
        sv \in Services, o \in Outcomes}

Batches == UNION {[1..n -> EventUniverse] : n \in 0..MaxBatch}

(***************************************************************************)
(* load_events                                                             *)
(***************************************************************************)
CommitEvery == 1000

\* The row the INSERT writes for one event.
RawServiceEvent(ev, source_run_id) ==
    [service_date |-> ev.service_date,
     operator |-> ev.operator,
     origin |-> ev.origin,
     destination |-> ev.destination,
     scheduled_departure_ts |-> ev.scheduled_departure_ts,
     scheduled_arrival_ts |-> ev.scheduled_arrival_ts,
     actual_arrival_ts |-> ev.actual_arrival_ts,
     cancelled |-> ev.cancelled,
     arrival_delay_minutes |-> ev.arrival_delay_minutes,
     service_key |-> ev.service_key,
     source_run_id |-> source_run_id,
     sourced |-> ev.source]

HasKey(table, key) == \E i \in DOMAIN table : table[i].service_key = key

\* A plain INSERT, which the unique index does not stop.
InsertAlways(table, row) == Append(table, row)

\* An upsert that overwrites the stored row.
InsertOrUpdate(table, row) ==
    IF HasKey(table, row.service_key)
    THEN [i \in DOMAIN table |->
            IF table[i].service_key = row.service_key THEN row ELSE table[i]]
    ELSE Append(table, row)

\* INSERT ... ON CONFLICT (service_key) DO NOTHING
InsertOnConflictDoNothing(table, row) ==
    IF HasKey(table, row.service_key) THEN table ELSE Append(table, row)

\* res.fetchone() after RETURNING id: the Row of the new id, or None.
fetchone(before, after) ==
    IF Len(after) > Len(before)
    THEN [tag |-> "Row", id |-> Len(after)]
    ELSE [tag |-> "None"]

\* Python's value == n for an int n: a Row or None never equals an int.
PyEqualsInt(value, n) == value.tag = "int" /\ value.val = n

\* uuid.uuid4(): an identifier no stored row carries.
uuid4(table) ==
    LET used == {table[i].source_run_id : i \in DOMAIN table}
    IN  CHOOSE n \in 1..(Cardinality(used) + 1) : n \notin used

LoadStart(batch) ==
    /\ lpc = "idle"
    /\ submitted + Len(batch) <= MaxSubmitted
    /\ lpc' = "loop"
    /\ events' = batch
    /\ li' = 0
    /\ inserted' = 0
    /\ skipped' = 0
    /\ run_id' = uuid4(raw)
    /\ submitted' = submitted + Len(batch)
    /\ lastOp' = [kind |-> "load", p |-> None, n |-> 0]
    /\ UNCHANGED <<raw, agg, uncommitted, lastResult>>
    /\ UNCHANGED <<httpVars, ledgerVars, metricsVars, ingestVars, servingVars,
                   concurrentVars>>

LoadEvent ==
    /\ lpc = "loop"
    /\ li < Len(events)
    /\ LET ev == events[li + 1]
           after == InsertOnConflictDoNothing(raw, RawServiceEvent(ev, run_id))
           row == fetchone(raw, after)
       IN  /\ raw' = after
           /\ IF PyEqualsInt(row, 1)
              THEN inserted' = inserted + 1 /\ skipped' = skipped
              ELSE skipped' = skipped + 1 /\ inserted' = inserted
           /\ uncommitted' = IF (li + 1) % CommitEvery = 0 THEN 0
                             ELSE uncommitted + (Len(after) - Len(raw))
    /\ li' = li + 1
    /\ UNCHANGED <<agg, lpc, events, run_id, submitted, lastResult, lastOp>>
    /\ UNCHANGED <<httpVars, ledgerVars, metricsVars, ingestVars, servingVars,
                   concurrentVars>>

\* {"total": len(events), "inserted": inserted, "skipped": skipped}
ReturnValue ==
    [total |-> Len(events), inserted |-> inserted, skipped |-> skipped]

\* db.commit(); return {...}
LoadReturn ==
    /\ lpc = "loop"
    /\ li = Len(events)
    /\ uncommitted' = 0
    /\ lastResult' = ReturnValue
    /\ lpc' = "idle"
    /\ events' = <<>>
    /\ li' = 0
    /\ inserted' = 0
    /\ skipped' = 0
    /\ UNCHANGED <<raw, agg, run_id, submitted, lastOp>>

LoadFinish ==
    /\ ipc = "idle"
    /\ LoadReturn
    /\ UNCHANGED <<httpVars, ledgerVars, metricsVars, ingestVars, servingVars,
                   concurrentVars>>

(***************************************************************************)
(* run_daily_slot_aggs: _DAILY_SLOT_AGG_SQL                                *)
(***************************************************************************)
\* to_char(scheduled_departure_ts, 'HH24MI')
dep_hhmm(ts) == <<ts.min \div 60, ts.min % 60>>

\* EXTRACT(DOW FROM service_date): 0 = Sunday .. 6 = Saturday
day_of_week(d) == d % 7

\* (:x)::text IS NULL OR column = (:x)::text
FilterMatches(filter, value) == filter = None \/ filter = Some(value)

\* The WHERE clause.
InRollupScope(r, p) ==
    /\ r.service_date >= p.from_date
    /\ r.service_date <= p.to_date
    /\ FilterMatches(p.operator, r.operator)
    /\ FilterMatches(p.origin, r.origin)
    /\ FilterMatches(p.destination, r.destination)

\* The GROUP BY columns that form the conflict target.
GroupKey(r) ==
    <<r.service_date, r.operator, r.origin, r.destination,
      dep_hhmm(r.scheduled_departure_ts)>>

IsCancelled(r) == r.cancelled

IsDelayedGt5(r) ==
    /\ ~r.cancelled
    /\ r.arrival_delay_minutes # None
    /\ r.arrival_delay_minutes[1] > 5

\* Counts a service as disrupted only when it was cancelled.
IsDisruptedCancelledOnly(r) == r.cancelled

IsDisrupted(r) ==
    \/ r.cancelled
    \/ (/\ ~r.cancelled
        /\ r.arrival_delay_minutes # None
        /\ r.arrival_delay_minutes[1] > 5)

\* The SELECT ... GROUP BY: one row of counts per group in scope.
GroupedCounts(table, p) ==
    LET scope == {i \in DOMAIN table : InRollupScope(table[i], p)}
        keys == {GroupKey(table[i]) : i \in scope}
        members(k) == {i \in scope : GroupKey(table[i]) = k}
    IN  [k \in keys |->
            [day_of_week |-> day_of_week(k[1]),
             n_services |-> Cardinality(members(k)),
             n_cancelled |->
                Cardinality({i \in members(k) : IsCancelled(table[i])}),
             n_delayed_gt5 |->
                Cardinality({i \in members(k) : IsDelayedGt5(table[i])}),
             n_disrupted |->
                Cardinality({i \in members(k) : IsDisrupted(table[i])})]]

\* An upsert that adds the new counts to the stored ones.
DoUpdateAccumulate(old, excluded) ==
    [day_of_week |-> excluded.day_of_week,
     n_services |-> old.n_services + excluded.n_services,
     n_cancelled |-> old.n_cancelled + excluded.n_cancelled,
     n_delayed_gt5 |-> old.n_delayed_gt5 + excluded.n_delayed_gt5,
     n_disrupted |-> old.n_disrupted + excluded.n_disrupted]

\* ON CONFLICT (...) DO UPDATE SET col = EXCLUDED.col for every count column
DoUpdateSet(old, excluded) ==
    [day_of_week |-> excluded.day_of_week,
     n_services |-> excluded.n_services,
     n_cancelled |-> excluded.n_cancelled,
     n_delayed_gt5 |-> excluded.n_delayed_gt5,
     n_disrupted |-> excluded.n_disrupted]

\* INSERT INTO daily_slot_agg ... ON CONFLICT ... DO UPDATE
UpsertDailySlotAgg(table, rows) ==
    [k \in DOMAIN table \cup DOMAIN rows |->
        IF k \notin DOMAIN rows THEN table[k]
        ELSE IF k \in DOMAIN table THEN DoUpdateSet(table[k], rows[k])
        ELSE rows[k]]

RollupParams ==
    {[from_date |-> 5, to_date |-> t, operator |-> op, origin |-> None,
      destination |-> Some(ToLoc)] :
        t \in {5, 6}, op \in {None, Some("GW")}}

\* How many times in a row the same rollup has now run (counted up to 2).
Repeats(p) ==
    IF lastOp.kind = "rollup" /\ lastOp.p = p /\ lastOp.n >= 1 THEN 2 ELSE 1

run_daily_slot_aggs(p) ==
    /\ lpc = "idle"
    /\ agg' = UpsertDailySlotAgg(agg, GroupedCounts(raw, p))
    /\ lastOp' = [kind |-> "rollup", p |-> p, n |-> Repeats(p)]
    /\ UNCHANGED <<raw, lpc, events, li, inserted, skipped, run_id, submitted,
                   uncommitted, lastResult>>
    /\ UNCHANGED <<httpVars, ledgerVars, metricsVars, ingestVars, servingVars,
                   concurrentVars>>

(***************************************************************************)
(* post_with_retry                                                         *)
(***************************************************************************)
RETRY_STATUSES == {429, 502, 503, 504, 520, 522, 524}

\* What one client.post can come to: a response with a status, a timeout,
\* or another exception (a refused connection, a body r.json() cannot read).
Statuses == {200} \cup RETRY_STATUSES \cup {400, 404, 500}

AttemptOutcomes ==
    {[type |-> "response", status |-> st] : st \in Statuses}
    \cup {[type |-> t, status |-> 0] :
            t \in {"ReadTimeout", "ConnectTimeout", "ConnectError",
                   "JSONDecodeError"}}

\* The exception an attempt leaves in the except clauses.
ErrorOf(o, a) ==
    [type |-> IF o.type = "response" THEN "HTTPStatusError" ELSE o.type,
     status |-> o.status,
     attempt |-> a]

\* raise None: "exceptions must derive from BaseException".
RaiseNone == [type |-> "TypeError", status |-> 0, attempt |-> 0]

is_success(status) == status >= 200 /\ status <= 299

\* Retries whatever went wrong, a status outside RETRY_STATUSES too.
ClassifyRetryAll(o) ==
    IF o.type = "response" /\ is_success(o.status) THEN "return" ELSE "retry"

\* The try/except of one attempt: "return" r.json(), "raise" out of the
\* loop, or fall through to sleep_backoff ("retry").
Classify(o) ==
    IF o.type = "response"
    THEN IF o.status \in RETRY_STATUSES THEN "retry"
         ELSE IF is_success(o.status) THEN "return"
         ELSE "raise"
    ELSE "retry"

\* Entering post_with_retry: last_err = None, then the first pass of
\* "for attempt in range(1, cfg.retries + 1)", or "raise last_err" at once.
HttpBegin ==
    /\ hpc = "idle"
    /\ attempt' = 1
    /\ nreq' = 0
    /\ sleeps' = <<>>
    /\ last_err' = None
    /\ response' = None
    /\ IF retries >= 1
       THEN hpc' = "request" /\ raised' = None
       ELSE hpc' = "raised" /\ raised' = Some(RaiseNone)
    /\ UNCHANGED retries

\* One pass of the loop body up to sleep_backoff.
HttpAttempt(o) ==
    /\ hpc = "request"
    /\ nreq' = nreq + 1
    /\ CASE Classify(o) = "return" ->
              /\ hpc' = "returned"
              /\ response' = Some(o)
              /\ UNCHANGED <<last_err, raised>>
         [] Classify(o) = "raise" ->
              /\ hpc' = "raised"
              /\ last_err' = Some(ErrorOf(o, attempt))
              /\ raised' = Some(ErrorOf(o, attempt))
              /\ UNCHANGED response
         [] OTHER ->
              /\ hpc' = "backoff"
              /\ last_err' = Some(ErrorOf(o, attempt))
              /\ UNCHANGED <<raised, response>>
    /\ UNCHANGED <<retries, attempt, sleeps>>
    /\ UNCHANGED <<storeVars, ledgerVars, metricsVars, ingestVars, servingVars,
                   concurrentVars>>

\* Leaves the loop one pass early.
sleep_backoff_one_pass_short ==
    /\ hpc = "backoff"
    /\ sleeps' = Append(sleeps, attempt)
    /\ attempt' = attempt + 1
    /\ IF attempt + 1 < retries
       THEN hpc' = "request" /\ UNCHANGED raised
       ELSE hpc' = "raised" /\ raised' = last_err
    /\ UNCHANGED <<retries, nreq, last_err, response>>
    /\ UNCHANGED <<storeVars, ledgerVars, metricsVars, ingestVars, servingVars,
                   concurrentVars>>

\* sleep_backoff(cfg, attempt=attempt, path=path), then the next pass of the
\* loop or, after the last one, "raise last_err".
sleep_backoff ==
    /\ hpc = "backoff"
    /\ sleeps' = Append(sleeps, attempt)
    /\ attempt' = attempt + 1
    /\ IF attempt + 1 <= retries
       THEN hpc' = "request" /\ UNCHANGED raised
       ELSE hpc' = "raised" /\ raised' = last_err
    /\ UNCHANGED <<retries, nreq, last_err, response>>
    /\ UNCHANGED <<storeVars, ledgerVars, metricsVars, ingestVars, servingVars,
                   concurrentVars>>

\* "raise last_err" after the loop: every attempt allowed was used up (none
\* ended the call with a status outside RETRY_STATUSES).
RetryBudgetSpent ==
    /\ hpc = "raised"
    /\ \/ last_err = None
       \/ last_err[1].type # "HTTPStatusError"
       \/ last_err[1].status \in RETRY_STATUSES

\* A caller invokes post_with_retry.
post_with_retry ==
    /\ ipc = "idle"
    /\ HttpBegin
    /\ UNCHANGED <<storeVars, ledgerVars, metricsVars, ingestVars, servingVars,
                   concurrentVars>>

InitHttp ==
    /\ hpc = "idle"
    /\ attempt = 0
    /\ nreq = 0
    /\ sleeps = <<>>
    /\ last_err = None
    /\ raised = None
    /\ response = None

(***************************************************************************)
(* Job Ledger: _start_job / _finish_job                                    *)
(***************************************************************************)
\* db.add(JobRun(run_id, job_name, status="running", meta)); db.commit()
start_job(run, job_name) ==
    /\ ledger' = [r \in DOMAIN ledger \cup {run} |->
                    IF r = run
                    THEN [job_name |-> job_name, status |-> "running",
                          ended |-> FALSE, meta |-> None]
                    ELSE ledger[r]]
    /\ ledgerLog' = Append(ledgerLog, <<run, "running">>)

\* jr = db.get(JobRun, run_id); status, ended_at, meta updated; db.commit()
finish_job(run, status, meta_updates) ==
    /\ ledger' = [ledger EXCEPT ![run] =
                    [job_name |-> @.job_name, status |-> status,
                     ended |-> TRUE, meta |-> Some(meta_updates)]]
    /\ ledgerLog' = Append(ledgerLog, <<run, status>>)

InitLedger ==
    /\ ledger = << >>
    /\ ledgerLog = <<>>

(***************************************************************************)
(* compute_slot_metrics and compute_slot_metrics_daytype: the two differ   *)
(* in the grouping key and the table, not in their control flow.           *)
(***************************************************************************)
MetricsCommitEvery == 500

JobNameOf(table) ==
    IF table = "slot_metrics" THEN "compute_slot_metrics"
    ELSE "compute_slot_metrics_daytype"

\* What _SELECT_DAILY_ROWS can load: how many slot groups and operators the
\* rows of the window fall into.
WindowRows ==
    {[slots |-> 0, operators |-> 0], [slots |-> 2, operators |-> 1],
     [slots |-> 2, operators |-> 2],
     [slots |-> MetricsCommitEvery, operators |-> 2],
     [slots |-> MaxSlots, operators |-> 2]}

\* Metric rows an earlier metrics run (run 0) left for the same metric_date.
EarlierRows(n) ==
    [k \in {<<t, g>> : t \in {"slot_metrics", "slot_metrics_daytype"},
                       g \in 1..n} |-> [run |-> 0]]

\* _UPSERT_*: INSERT ... ON CONFLICT (key) DO UPDATE SET every value column
UpsertMetric(table, key, row) ==
    [k \in DOMAIN table \cup {key} |-> IF k = key THEN row ELSE table[k]]

\* run_id = _start_job(db, ...)
MetricsStart(table, c) ==
    /\ mpc = "idle"
    /\ DOMAIN ledger = {}
    /\ mrun' = 1
    /\ start_job(1, JobNameOf(table))
    /\ variant' = table
    /\ commit' = c
    /\ mpc' = "load"
    /\ UNCHANGED <<slot_count, operators_seen, slots_written, metrics,
                   metricsCommitted>>
    /\ UNCHANGED <<storeVars, httpVars, ingestVars, servingVars,
                   concurrentVars>>

\* rows = db.execute(_SELECT_DAILY_ROWS, ...); "if not rows" finishes the
\* job with slots_written = 0; otherwise the priors and groups are built.
MetricsLoadRows(w) ==
    /\ mpc = "load"
    /\ slot_count' = w.slots
    /\ operators_seen' = w.operators
    /\ slots_written' = 0
    /\ IF w.slots = 0
       THEN /\ finish_job(mrun, "success",
                          [result |-> [slots_written |-> 0,
                                       operators_seen |-> 0]])
            /\ metricsCommitted' = metrics
            /\ mpc' = "returned"
       ELSE /\ mpc' = "loop"
            /\ UNCHANGED <<ledgerVars, metricsCommitted>>
    /\ UNCHANGED <<mrun, variant, commit, metrics>>
    /\ UNCHANGED <<storeVars, httpVars, ingestVars, servingVars,
                   concurrentVars>>

\* Commits after every upsert.
BatchCommitDueEveryRow(n) == commit

\* "if commit and slots_written % 500 == 0"
BatchCommitDue(n) == commit /\ n % MetricsCommitEvery = 0

\* One pass of "for ... in slot_to_rows.items()": the upsert, the counter,
\* the batch commit.
MetricsWriteSlot ==
    /\ mpc = "loop"
    /\ slots_written < slot_count
    /\ LET n == slots_written + 1
           written == UpsertMetric(metrics, <<variant, n>>, [run |-> mrun])
       IN  /\ metrics' = written
           /\ slots_written' = n
           /\ metricsCommitted' =
                 IF BatchCommitDue(n) THEN written ELSE metricsCommitted
    /\ UNCHANGED <<mpc, mrun, variant, commit, slot_count, operators_seen>>
    /\ UNCHANGED <<storeVars, httpVars, ledgerVars, ingestVars, servingVars,
                   concurrentVars>>

\* The batch commit of a pass raises: the pass has run its upsert and counted
\* it, and nothing of the batch is committed.
MetricsBatchCommitRaise ==
    /\ mpc = "loop"
    /\ slots_written < slot_count
    /\ BatchCommitDue(slots_written + 1)
    /\ metrics' = UpsertMetric(metrics, <<variant, slots_written + 1>>,
                               [run |-> mrun])
    /\ slots_written' = slots_written + 1
    /\ mpc' = "except"
    /\ UNCHANGED <<mrun, variant, commit, slot_count, operators_seen,
                   metricsCommitted>>
    /\ UNCHANGED <<storeVars, httpVars, ledgerVars, ingestVars, servingVars,
                   concurrentVars>>

\* "if commit: db.commit()", the result, _finish_job(..., "success", ...)
\* (whose own db.commit() commits the session whatever the commit argument).
MetricsFinish ==
    /\ mpc = "loop"
    /\ slots_written = slot_count
    /\ metricsCommitted' = metrics
    /\ finish_job(mrun, "success",
                  [result |-> [slots_written |-> slots_written,
                               operators_seen |-> operators_seen]])
    /\ mpc' = "returned"
    /\ UNCHANGED <<mrun, variant, commit, slot_count, operators_seen,
                   slots_written, metrics>>
    /\ UNCHANGED <<storeVars, httpVars, ingestVars, servingVars,
                   concurrentVars>>

\* A statement of the try block raises: the SELECT, the scoring or upsert of
\* the next group, or the final commit.
MetricsRaise ==
    /\ mpc \in {"load", "loop"}
    /\ mpc' = "except"
    /\ UNCHANGED <<mrun, variant, commit, slot_count, operators_seen,
                   slots_written, metrics, metricsCommitted>>
    /\ UNCHANGED <<storeVars, httpVars, ledgerVars, ingestVars, servingVars,
                   concurrentVars>>

\* Records the failure without rolling the session back first.
MetricsExceptNoRollback ==
    /\ mpc = "except"
    /\ metricsCommitted' = metrics
    /\ finish_job(mrun, "fail", [error |-> "Exception"])
    /\ mpc' = "raised"
    /\ UNCHANGED <<mrun, variant, commit, slot_count, operators_seen,
                   slots_written, metrics>>
    /\ UNCHANGED <<storeVars, httpVars, ingestVars, servingVars,
                   concurrentVars>>

\* except Exception: db.rollback(); _finish_job(..., "fail", ...); raise
MetricsExcept ==
    /\ mpc = "except"
    /\ metrics' = metricsCommitted
    /\ finish_job(mrun, "fail", [error |-> "Exception"])
    /\ mpc' = "raised"
    /\ UNCHANGED <<mrun, variant, commit, slot_count, operators_seen,
                   slots_written, metricsCommitted>>
    /\ UNCHANGED <<storeVars, httpVars, ingestVars, servingVars,
                   concurrentVars>>

InitMetrics ==
    /\ mpc = "idle"
    /\ mrun = 0
    /\ variant = "slot_metrics"
    /\ commit = TRUE
    /\ slot_count = 0
    /\ operators_seen = 0
    /\ slots_written = 0
    /\ metrics = << >>
    /\ metricsCommitted = << >>

(***************************************************************************)
(* EventNormalizer: hhmm_to_dt, roll_if_next_day, details_to_event.        *)
(* A text field is None when blank or missing and Some(v) otherwise: an    *)
(* "HHMM" text is the number its four digits spell (0810 is 810, which     *)
(* also admits 2460 or 0875), a date is its day ordinal, and Malformed     *)
(* stands for a text that is not of the expected form at all.              *)
(***************************************************************************)
Malformed == Some(0 - 1)

\* hhmm_to_dt: None for blank, ValueError for anything but four digits and
\* (from the datetime constructor) for an hour above 23 or a minute above
\* 59, else the local timestamp on service_date.
hhmm_to_dt(service_date, hhmm) ==
    IF hhmm = None THEN [kind |-> "none"]
    ELSE IF hhmm[1] < 0 \/ hhmm[1] > 9999 THEN [kind |-> "raise"]
    ELSE LET h == hhmm[1] \div 100
             m == hhmm[1] % 100
         IN  IF h > 23 \/ m > 59 THEN [kind |-> "raise"]
             ELSE [kind |-> "dt", dt |-> Timestamp(service_date, h * 60 + m, 0)]

Before(a, b) ==
    \/ a.date < b.date
    \/ (a.date = b.date /\ a.min < b.min)
    \/ (a.date = b.date /\ a.min = b.min /\ a.sec < b.sec)

\* Rolls an arrival in the very minute of the departure too.
roll_if_not_later(dep, maybe) ==
    IF maybe = None THEN None
    ELSE IF ~Before(dep, maybe[1])
         THEN Some(Timestamp(maybe[1].date + 1, maybe[1].min, maybe[1].sec))
    ELSE maybe

\* roll_if_next_day(dep, maybe), on optional timestamps
roll_if_next_day(dep, maybe) ==
    IF maybe = None THEN None
    ELSE IF Before(maybe[1], dep)
         THEN Some(Timestamp(maybe[1].date + 1, maybe[1].min, maybe[1].sec))
    ELSE maybe

\* (act_arr - sched_arr).total_seconds() / 60.0, rounded
DelayMinutes(act, sched) ==
    LET secs == ((act.date - sched.date) * 1440 + (act.min - sched.min)) * 60
                + (act.sec - sched.sec)
    IN  IF secs >= 0 THEN (secs + 30) \div 60 ELSE 0 - ((30 - secs) \div 60)

\* x or fallback, on text fields
OrElse(x, fallback) == IF x = None THEN fallback ELSE x

TemplateOf(templates, rid) ==
    IF rid \in DOMAIN templates THEN templates[rid]
    ELSE [gbtt_ptd |-> None, gbtt_pta |-> None, toc_code |-> None]

FindLocation(locs, crs) ==
    IF \E i \in DOMAIN locs : locs[i].location = crs
    THEN Some(locs[CHOOSE i \in DOMAIN locs :
                     /\ locs[i].location = crs
                     /\ \A j \in DOMAIN locs :
                           locs[j].location = crs => i <= j])
    ELSE None

\* details_to_event: an event, None (the record is skipped), or an exception
\* (Date.fromisoformat or hhmm_to_dt raising ValueError).
details_to_event(rid, data, from_loc, to_loc, templates) ==
    LET dos == data.date_of_service
        tpl == TemplateOf(templates, rid)
        toc == OrElse(data.toc_code, tpl.toc_code)
        origin_row == FindLocation(data.locations, from_loc)
        dest_row == FindLocation(data.locations, to_loc)
    IN  IF dos = None THEN [kind |-> "none"]
        ELSE IF dos = Malformed THEN [kind |-> "raise"]
        ELSE IF origin_row = None \/ dest_row = None THEN [kind |-> "none"]
        ELSE
          LET service_date == dos[1]
              gbtt_ptd == OrElse(origin_row[1].gbtt_ptd, tpl.gbtt_ptd)
              gbtt_pta == OrElse(dest_row[1].gbtt_pta, tpl.gbtt_pta)
              dep == hhmm_to_dt(service_date, gbtt_ptd)
              arr == hhmm_to_dt(service_date, gbtt_pta)
              act == hhmm_to_dt(service_date, dest_row[1].actual_ta)
          IN  IF dep.kind = "raise" THEN [kind |-> "raise"]
              ELSE IF dep.kind = "none" THEN [kind |-> "none"]
              ELSE IF arr.kind = "raise" \/ act.kind = "raise"
                   THEN [kind |-> "raise"]
              ELSE
                LET sched_dep == dep.dt
                    sched_arr ==
                        roll_if_next_day(sched_dep,
                            IF arr.kind = "dt" THEN Some(arr.dt) ELSE None)
                    act_arr ==
                        roll_if_next_day(sched_dep,
                            IF act.kind = "dt" THEN Some(act.dt) ELSE None)
                    cancelled == (act_arr = None)
                    opname == IF toc = None THEN "" ELSE toc[1]
                IN  [kind |-> "event",
                     ev |->
                       [source |-> "hsp",
                        source_event_id |-> rid,
                        service_date |-> service_date,
                        operator |-> opname,
                        origin |-> from_loc,
                        destination |-> to_loc,
                        scheduled_departure_ts |-> sched_dep,
                        scheduled_arrival_ts |-> sched_arr,
                        actual_arrival_ts |-> act_arr,
                        cancelled |-> cancelled,
                        arrival_delay_minutes |->
                            IF ~cancelled /\ sched_arr # None
                            THEN Some(DelayMinutes(act_arr[1], sched_arr[1]))
                            ELSE None,
                        service_key |->
                            make_service_key(from_loc, to_loc, opname,
                                service_date, isoformat(sched_dep))]]

(***************************************************************************)
(* Provider responses.                                                     *)
(***************************************************************************)
ServiceEntry(rs, ptd, pta, toc) ==
    [rids |-> rs, gbtt_ptd |-> ptd, gbtt_pta |-> pta, toc_code |-> toc]

\* "Services" of one /serviceMetrics chunk: none, one service with one RID,
\* or two services that share a RID, the second without template times.
ChunkResponses ==
    {<<>>,
     <<ServiceEntry(<<"r1">>, Some(810), Some(840), Some("GW"))>>,
     <<ServiceEntry(<<"r1", "r2">>, Some(810), Some(840), Some("GW")),
       ServiceEntry(<<"r2", "r3">>, None, None, None)>>}

Location(crs, ptd, pta, ta) ==
    [location |-> crs, gbtt_ptd |-> ptd, gbtt_pta |-> pta, actual_ta |-> ta]

Details(dos, toc, locs) ==
    [date_of_service |-> dos, toc_code |-> toc, locations |-> locs]

\* "serviceAttributesDetails" of one /serviceDetails response: a late
\* arrival; a record with no times of its own (a cancelled service, if the
\* template has the times); a departure at 23:50 that arrives after
\* midnight; an arrival in the minute of the departure; a record without
\* date; one without the destination row; one whose actual arrival is not
\* an HHMM; one whose date is not a date.
DetailResponses ==
    {Details(Some(5), Some("GW"),
             <<Location(FromLoc, Some(810), None, None),
               Location(ToLoc, None, Some(840), Some(849))>>),
     Details(Some(5), None,
             <<Location(FromLoc, None, None, None),
               Location(ToLoc, None, None, None)>>),
     Details(Some(5), Some("GW"),
             <<Location(FromLoc, Some(2350), None, None),
               Location(ToLoc, None, Some(2355), Some(2))>>),
     Details(Some(5), Some("GW"),
             <<Location(FromLoc, Some(2350), None, None),
               Location(ToLoc, None, Some(10), Some(2350))>>),
     Details(None, Some("GW"), <<>>),
     Details(Some(5), Some("GW"),
             <<Location(FromLoc, Some(810), None, None)>>),
     Details(Some(5), Some("GW"),
             <<Location(FromLoc, Some(810), None, None),
               Location(ToLoc, None, Some(840), Some(2460))>>),
     Details(Malformed, Some("GW"), <<>>)}

(***************************************************************************)
(* extract_rids_and_templates                                              *)
(***************************************************************************)
\* (service index, rid index) pairs in iteration order.
RidRefs(services) ==
    {<<i, j>> : i \in DOMAIN services, j \in 1..2} \cap
    {ref \in (DOMAIN services) \X (1..2) :
        ref[2] \in DOMAIN services[ref[1]].rids}

RefBefore(a, b) == a[1] < b[1] \/ (a[1] = b[1] /\ a[2] < b[2])

RidAt(services, ref) == services[ref[1]].rids[ref[2]]

\* The references at which a RID is seen for the first time.
FirstRefs(services) ==
    {ref \in RidRefs(services) :
        \A other \in RidRefs(services) :
            RidAt(services, other) = RidAt(services, ref)
                => ~RefBefore(other, ref)}

RECURSIVE RefsInOrder(_)
RefsInOrder(refs) ==
    IF refs = {} THEN <<>>
    ELSE LET first == CHOOSE r \in refs :
                          \A o \in refs : o = r \/ RefBefore(r, o)
         IN  <<first>> \o RefsInOrder(refs \ {first})

extract_rids(services) ==
    LET order == RefsInOrder(FirstRefs(services))
    IN  [n \in DOMAIN order |-> RidAt(services, order[n])]

extract_templates(services) ==
    [rid \in {RidAt(services, ref) : ref \in FirstRefs(services)} |->
        LET ref == CHOOSE r \in FirstRefs(services) : RidAt(services, r) = rid
            sv == services[ref[1]]
        IN  [gbtt_ptd |-> sv.gbtt_ptd, gbtt_pta |-> sv.gbtt_pta,
             toc_code |-> sv.toc_code]]

(***************************************************************************)
(* WindowPlanner: parse_hhmm, fmt_hhmm, date_range, weekday_only.          *)
(***************************************************************************)
\* parse_hhmm: int(hhmm[:2]), int(hhmm[2:])
parse_hhmm(hhmm) == <<hhmm \div 100, hhmm % 100>>

\* fmt_hhmm: f"{h:02d}{m:02d}"
fmt_hhmm(h, m) == h * 100 + m

\* datetime(2000, 1, 1, h, m) accepts the pair.
ValidClock(hm) == hm[1] >= 0 /\ hm[1] <= 23 /\ hm[2] >= 0 /\ hm[2] <= 59

\* datetime(2000, 1, 1, h, m), in minutes after 2000-01-01 00:00
MinuteOfDay(hm) == hm[1] * 60 + hm[2]

\* fmt_hhmm(t.hour, t.minute) of the datetime t minutes after 2000-01-01 00:00
ClockOf(t) == fmt_hhmm((t % 1440) \div 60, t % 60)

\* date_range: every date from from_date to to_date, both included
date_range(from_date, to_date) ==
    [i \in 1..(to_date - from_date + 1) |-> from_date + i - 1]

\* Date.weekday(): Monday is 0 and Sunday is 6 (day ordinals count from a
\* Sunday).
weekday(d) == (d + 6) % 7

\* weekday_only: Monday to Friday
weekday_only(ds) == SelectSeq(ds, LAMBDA d : weekday(d) < 5)

(***************************************************************************)
(* run_ingest.main around HspSource.ingest                                 *)
(***************************************************************************)
\* The caller has taken the outcome of a post_with_retry call.
HttpDone ==
    /\ hpc' = "idle"
    /\ attempt' = 0
    /\ nreq' = 0
    /\ sleeps' = <<>>
    /\ last_err' = None
    /\ raised' = None
    /\ response' = None
    /\ UNCHANGED retries

\* Breaks off one RID late: "idx - 1 > max_details".
StopsEarlyOneLate(n) == max_details # 0 /\ n > max_details

\* "if self.cfg.max_details and idx > self.cfg.max_details: break", for the
\* RID after the n already handled.
StopsEarly(n) == max_details # 0 /\ n + 1 > max_details

\* db.add(JobRun(run_id, "ingest_hsp", status="running", ...)); db.commit()
IngestStart ==
    /\ ipc = "idle"
    /\ mpc = "idle"
    /\ DOMAIN ledger = {}
    /\ irun' = uuid4(raw)
    /\ start_job(uuid4(raw), "ingest_hsp")
    /\ ipc' = "source"
    /\ UNCHANGED <<args, dates, cur, windows, max_details, total_requests, req_idx, merged_services, rids,
                   service_templates, idx, ievents, details_fetched,
                   details_failed, invalid_skipped, ierror, budget_exhausted>>
    /\ UNCHANGED <<payloads, chunk_results, details_json>>
    /\ UNCHANGED <<storeVars, httpVars, metricsVars, servingVars,
                   concurrentVars>>

\* source = SOURCES[args.source]() (load_config raises RuntimeError without
\* credentials), then source.ingest(..., from_date=args.from_date, ...)
IngestSource(configured, a) ==
    /\ ipc = "source"
    /\ args' = Some(a)
    /\ IF configured
       THEN ipc' = "plan" /\ UNCHANGED ierror
       ELSE ipc' = "except" /\ ierror' = "RuntimeError"
    /\ UNCHANGED <<irun, dates, cur, windows, max_details, total_requests,
                   req_idx, merged_services, rids, service_templates, idx,
                   ievents, details_fetched, details_failed, invalid_skipped,
                   budget_exhausted>>
    /\ UNCHANGED <<payloads, chunk_results, details_json>>
    /\ UNCHANGED <<storeVars, httpVars, ledgerVars, metricsVars, servingVars,
                   concurrentVars>>

\* fetch_service_metrics_chunked up to the loop of time_windows: the dates,
\* then start and end from parse_hhmm (datetime(...) raises ValueError for
\* an hour above 23 or a minute above 59).
IngestPlan ==
    /\ ipc = "plan"
    /\ dates' = IF args[1].metrics_filter_weekdays /\ args[1].days = "WEEKDAY"
                THEN weekday_only(date_range(args[1].from_date,
                                             args[1].to_date))
                ELSE date_range(args[1].from_date, args[1].to_date)
    /\ windows' = <<>>
    /\ IF ValidClock(parse_hhmm(args[1].from_time))
          /\ ValidClock(parse_hhmm(args[1].to_time))
       THEN /\ cur' = MinuteOfDay(parse_hhmm(args[1].from_time))
            /\ ipc' = "windows"
            /\ UNCHANGED ierror
       ELSE /\ ipc' = "except"
            /\ ierror' = "ValueError"
            /\ UNCHANGED cur
    /\ UNCHANGED <<irun, args, max_details, total_requests, req_idx,
                   merged_services, rids, service_templates, idx, ievents,
                   details_fetched, details_failed, invalid_skipped,
                   budget_exhausted>>
    /\ UNCHANGED <<payloads, chunk_results, details_json>>
    /\ UNCHANGED <<storeVars, httpVars, ledgerVars, metricsVars, servingVars,
                   concurrentVars>>

\* The loop taken as "while cur <= end".
TimeWindowsPassInclusive ==
    /\ ipc = "windows"
    /\ cur <= MinuteOfDay(parse_hhmm(args[1].to_time))
    /\ LET end == MinuteOfDay(parse_hhmm(args[1].to_time))
           stepped == cur + args[1].metrics_window_minutes
           nxt == IF stepped < end THEN stepped ELSE end
       IN  /\ windows' = Append(windows, <<ClockOf(cur), ClockOf(nxt)>>)
           /\ cur' = nxt
           /\ ipc' = IF nxt > cur THEN "windows" ELSE "looping"
    /\ UNCHANGED <<irun, args, dates, max_details, total_requests, req_idx,
                   merged_services, rids, service_templates, idx, ievents,
                   details_fetched, details_failed, invalid_skipped, ierror,
                   budget_exhausted>>
    /\ UNCHANGED <<payloads, chunk_results, details_json>>
    /\ UNCHANGED <<storeVars, httpVars, ledgerVars, metricsVars, servingVars,
                   concurrentVars>>

\* A pass that takes the whole step, beyond end too.
TimeWindowsPassUnclipped ==
    /\ ipc = "windows"
    /\ cur < MinuteOfDay(parse_hhmm(args[1].to_time))
    /\ LET nxt == cur + args[1].metrics_window_minutes
       IN  /\ windows' = Append(windows, <<ClockOf(cur), ClockOf(nxt)>>)
           /\ cur' = nxt
           /\ ipc' = IF nxt > cur THEN "windows" ELSE "looping"
    /\ UNCHANGED <<irun, args, dates, max_details, total_requests, req_idx,
                   merged_services, rids, service_templates, idx, ievents,
                   details_fetched, details_failed, invalid_skipped, ierror,
                   budget_exhausted>>
    /\ UNCHANGED <<payloads, chunk_results, details_json>>
    /\ UNCHANGED <<storeVars, httpVars, ledgerVars, metricsVars, servingVars,
                   concurrentVars>>

\* One pass of "while cur < end" in time_windows.  After a pass that did not
\* advance cur (step_minutes <= 0), cur < end holds for good and every
\* later pass only appends another window: the loop never ends ("looping").
TimeWindowsPass ==
    /\ ipc = "windows"
    /\ cur < MinuteOfDay(parse_hhmm(args[1].to_time))
    /\ LET end == MinuteOfDay(parse_hhmm(args[1].to_time))
           stepped == cur + args[1].metrics_window_minutes
           nxt == IF stepped < end THEN stepped ELSE end
       IN  /\ windows' = Append(windows, <<ClockOf(cur), ClockOf(nxt)>>)
           /\ cur' = nxt
           /\ ipc' = IF nxt > cur THEN "windows" ELSE "looping"
    /\ UNCHANGED <<irun, args, dates, max_details, total_requests, req_idx,
                   merged_services, rids, service_templates, idx, ievents,
                   details_fetched, details_failed, invalid_skipped, ierror,
                   budget_exhausted>>
    /\ UNCHANGED <<payloads, chunk_results, details_json>>
    /\ UNCHANGED <<storeVars, httpVars, ledgerVars, metricsVars, servingVars,
                   concurrentVars>>

\* time_windows returns; total_requests = len(dates) * len(windows);
\* merged_services = []; req_idx = 0
TimeWindowsReturn ==
    /\ ipc = "windows"
    /\ cur >= MinuteOfDay(parse_hhmm(args[1].to_time))
    /\ total_requests' = Len(dates) * Len(windows)
    /\ req_idx' = 0
    /\ merged_services' = <<>>
    /\ ipc' = "metrics"
    /\ UNCHANGED <<irun, args, dates, cur, windows, max_details, rids,
                   service_templates, idx, ievents, details_fetched,
                   details_failed, invalid_skipped, ierror, budget_exhausted>>
    /\ UNCHANGED <<payloads, chunk_results, details_json>>
    /\ UNCHANGED <<storeVars, httpVars, ledgerVars, metricsVars, servingVars,
                   concurrentVars>>

\* The k-th pass of "for w_from, w_to in windows" nested in "for d in dates",
\* taken with the windows as the outer loop.
ChunkOfWindowMajor(k) ==
    <<dates[((k - 1) % Len(dates)) + 1],
      windows[((k - 1) \div Len(dates)) + 1][1],
      windows[((k - 1) \div Len(dates)) + 1][2]>>

\* The k-th pass of "for w_from, w_to in windows" nested in "for d in dates":
\* from_date = to_date = d, from_time = w_from, to_time = w_to.
ChunkOf(k) ==
    <<dates[((k - 1) \div Len(windows)) + 1],
      windows[((k - 1) % Len(windows)) + 1][1],
      windows[((k - 1) % Len(windows)) + 1][2]>>

\* req_idx += 1; mj = post_with_retry(cfg, client, "/serviceMetrics", payload)
IngestChunkRequest ==
    /\ ipc = "metrics"
    /\ req_idx < total_requests
    /\ req_idx' = req_idx + 1
    /\ payloads' = Append(payloads, ChunkOf(req_idx + 1))
    /\ HttpBegin
    /\ ipc' = "chunk"
    /\ UNCHANGED <<irun, args, dates, cur, windows, max_details,
                   total_requests, merged_services, rids, service_templates,
                   idx, ievents, details_fetched, details_failed,
                   invalid_skipped, ierror, budget_exhausted>>
    /\ UNCHANGED <<chunk_results, details_json>>
    /\ UNCHANGED <<storeVars, ledgerVars, metricsVars, servingVars,
                   concurrentVars>>

\* merged_services.extend(mj.get("Services", []) or [])
IngestChunkReturn(services) ==
    /\ ipc = "chunk"
    /\ hpc = "returned"
    /\ merged_services' = merged_services \o services
    /\ chunk_results' = Append(chunk_results, services)
    /\ HttpDone
    /\ ipc' = "metrics"
    /\ UNCHANGED <<irun, args, dates, cur, windows, max_details,
                   total_requests, req_idx, rids, service_templates, idx,
                   ievents, details_fetched, details_failed, invalid_skipped,
                   ierror, budget_exhausted>>
    /\ UNCHANGED <<payloads, details_json>>
    /\ UNCHANGED <<storeVars, ledgerVars, metricsVars, servingVars,
                   concurrentVars>>

\* The chunk's failure is caught and the next chunk is requested.
IngestChunkRaiseSwallowed ==
    /\ ipc = "chunk"
    /\ hpc = "raised"
    /\ budget_exhausted' =
          IF RetryBudgetSpent
          THEN [budget_exhausted EXCEPT !.metrics = @ + 1]
          ELSE budget_exhausted
    /\ HttpDone
    /\ ipc' = "metrics"
    /\ UNCHANGED <<irun, args, dates, cur, windows, max_details, total_requests, req_idx, merged_services,
                   rids, service_templates, idx, ievents, details_fetched,
                   details_failed, invalid_skipped, ierror>>
    /\ UNCHANGED <<payloads, chunk_results, details_json>>
    /\ UNCHANGED <<storeVars, ledgerVars, metricsVars, servingVars,
                   concurrentVars>>

\* post_with_retry raises inside fetch_service_metrics_chunked: nothing
\* catches it before the except clause of main.
IngestChunkRaise ==
    /\ ipc = "chunk"
    /\ hpc = "raised"
    /\ ierror' = raised[1].type
    /\ budget_exhausted' =
          IF RetryBudgetSpent
          THEN [budget_exhausted EXCEPT !.metrics = @ + 1]
          ELSE budget_exhausted
    /\ HttpDone
    /\ ipc' = "except"
    /\ UNCHANGED <<irun, args, dates, cur, windows, max_details, total_requests, req_idx, merged_services,
                   rids, service_templates, idx, ievents, details_fetched,
                   details_failed, invalid_skipped>>
    /\ UNCHANGED <<payloads, chunk_results, details_json>>
    /\ UNCHANGED <<storeVars, ledgerVars, metricsVars, servingVars,
                   concurrentVars>>

\* rids, service_templates = extract_rids_and_templates(services), and the
\* locals of the details loop.
IngestExtract ==
    /\ ipc = "metrics"
    /\ req_idx = total_requests
    /\ rids' = extract_rids(merged_services)
    /\ service_templates' = extract_templates(merged_services)
    /\ idx' = 0
    /\ ievents' = <<>>
    /\ details_fetched' = 0
    /\ details_failed' = 0
    /\ invalid_skipped' = 0
    /\ ipc' = "details"
    /\ UNCHANGED <<irun, args, dates, cur, windows, max_details, total_requests, req_idx, merged_services,
                   ierror, budget_exhausted>>
    /\ UNCHANGED <<payloads, chunk_results, details_json>>
    /\ UNCHANGED <<storeVars, httpVars, ledgerVars, metricsVars, servingVars,
                   concurrentVars>>

\* The next pass of "for idx, rid in enumerate(rids, start=1)" up to its
\* post_with_retry(cfg, details_client, "/serviceDetails", {"rid": rid}).
IngestDetailRequest ==
    /\ ipc = "details"
    /\ idx < Len(rids)
    /\ ~StopsEarly(idx)
    /\ HttpBegin
    /\ ipc' = "detail"
    /\ UNCHANGED <<irun, args, dates, cur, windows, max_details, total_requests, req_idx, merged_services,
                   rids, service_templates, idx, ievents, details_fetched,
                   details_failed, invalid_skipped, ierror, budget_exhausted>>
    /\ UNCHANGED <<payloads, chunk_results, details_json>>
    /\ UNCHANGED <<storeVars, ledgerVars, metricsVars, servingVars,
                   concurrentVars>>

\* Counts the record whose normalization raised as skipped.
IngestDetailReturnSkipOnRaise(body) ==
    /\ ipc = "detail"
    /\ hpc = "returned"
    /\ details_json' = Some(body)
    /\ LET evt == details_to_event(rids[idx + 1], body, FromLoc,
                                   ToLoc, service_templates)
       IN  IF evt.kind = "event"
           THEN /\ ievents' = Append(ievents, evt.ev)
                /\ details_fetched' = details_fetched + 1
                /\ UNCHANGED <<invalid_skipped, details_failed>>
           ELSE /\ invalid_skipped' = invalid_skipped + 1
                /\ UNCHANGED <<ievents, details_fetched, details_failed>>
    /\ idx' = idx + 1
    /\ HttpDone
    /\ ipc' = "details"
    /\ UNCHANGED <<irun, args, dates, cur, windows, max_details,
                   total_requests, req_idx, merged_services, rids,
                   service_templates, ierror, budget_exhausted>>
    /\ UNCHANGED <<payloads, chunk_results>>
    /\ UNCHANGED <<storeVars, ledgerVars, metricsVars, servingVars,
                   concurrentVars>>

\* evt = details_to_event(...): the event is kept, a None is counted in
\* invalid_skipped, an exception is caught and counted in details_failed.
IngestDetailReturn(body) ==
    /\ ipc = "detail"
    /\ hpc = "returned"
    /\ LET evt == details_to_event(rids[idx + 1], body, FromLoc,
                                   ToLoc, service_templates)
       IN  CASE evt.kind = "event" ->
                  /\ ievents' = Append(ievents, evt.ev)
                  /\ details_fetched' = details_fetched + 1
                  /\ UNCHANGED <<invalid_skipped, details_failed>>
             [] evt.kind = "none" ->
                  /\ invalid_skipped' = invalid_skipped + 1
                  /\ UNCHANGED <<ievents, details_fetched, details_failed>>
             [] OTHER ->
                  /\ details_failed' = details_failed + 1
                  /\ UNCHANGED <<ievents, details_fetched, invalid_skipped>>
    /\ idx' = idx + 1
    /\ HttpDone
    /\ ipc' = "details"
    /\ UNCHANGED <<irun, args, dates, cur, windows, max_details, total_requests, req_idx, merged_services,
                   rids, service_templates, ierror, budget_exhausted>>
    /\ details_json' = Some(body)
    /\ UNCHANGED <<payloads, chunk_results>>
    /\ UNCHANGED <<storeVars, ledgerVars, metricsVars, servingVars,
                   concurrentVars>>

\* except Exception as e: details_failed += 1; continue
IngestDetailRaise ==
    /\ ipc = "detail"
    /\ hpc = "raised"
    /\ details_failed' = details_failed + 1
    /\ budget_exhausted' =
          IF RetryBudgetSpent
          THEN [budget_exhausted EXCEPT !.details = @ + 1]
          ELSE budget_exhausted
    /\ idx' = idx + 1
    /\ HttpDone
    /\ ipc' = "details"
    /\ UNCHANGED <<irun, args, dates, cur, windows, max_details, total_requests, req_idx, merged_services,
                   rids, service_templates, ievents, details_fetched,
                   invalid_skipped, ierror>>
    /\ UNCHANGED <<payloads, chunk_results, details_json>>
    /\ UNCHANGED <<storeVars, ledgerVars, metricsVars, servingVars,
                   concurrentVars>>

\* The loop is over or broken off: load_stats = load_events(db, events, run_id)
IngestLoadStart ==
    /\ ipc = "details"
    /\ idx = Len(rids) \/ StopsEarly(idx)
    /\ lpc = "idle"
    /\ lpc' = "loop"
    /\ events' = ievents
    /\ li' = 0
    /\ inserted' = 0
    /\ skipped' = 0
    /\ run_id' = irun
    /\ submitted' = submitted + Len(ievents)
    /\ lastOp' = [kind |-> "load", p |-> None, n |-> 0]
    /\ ipc' = "load"
    /\ UNCHANGED <<raw, agg, uncommitted, lastResult>>
    /\ UNCHANGED <<irun, args, dates, cur, windows, max_details, total_requests, req_idx, merged_services,
                   rids, service_templates, idx, ievents, details_fetched,
                   details_failed, invalid_skipped, ierror, budget_exhausted>>
    /\ UNCHANGED <<payloads, chunk_results, details_json>>
    /\ UNCHANGED <<httpVars, ledgerVars, metricsVars, servingVars,
                   concurrentVars>>

\* A statement of load_events raises (the database refuses an INSERT).
IngestLoadRaise ==
    /\ ipc = "load"
    /\ lpc = "loop"
    /\ li < Len(events)
    /\ lpc' = "idle"
    /\ events' = <<>>
    /\ li' = 0
    /\ inserted' = 0
    /\ skipped' = 0
    /\ ierror' = "OperationalError"
    /\ ipc' = "except"
    /\ UNCHANGED <<raw, agg, run_id, submitted, uncommitted, lastResult, lastOp>>
    /\ UNCHANGED <<irun, args, dates, cur, windows, max_details, total_requests, req_idx, merged_services,
                   rids, service_templates, idx, ievents, details_fetched,
                   details_failed, invalid_skipped, budget_exhausted>>
    /\ UNCHANGED <<payloads, chunk_results, details_json>>
    /\ UNCHANGED <<httpVars, ledgerVars, metricsVars, servingVars,
                   concurrentVars>>

\* The result of HspSource.ingest
IngestResult(load_stats) ==
    [rids_total |-> Len(rids),
     details_fetched |-> details_fetched,
     details_failed |-> details_failed,
     invalid_skipped |-> invalid_skipped,
     total |-> load_stats.total,
     inserted |-> load_stats.inserted,
     skipped |-> load_stats.skipped]

\* load_events returns, ingest returns; job.status = "success";
\* job.meta = {**job.meta, **result}; db.commit()
IngestSuccess ==
    /\ ipc = "load"
    /\ LoadReturn
    /\ finish_job(irun, "success", IngestResult(ReturnValue))
    /\ ipc' = "print"
    /\ UNCHANGED <<irun, args, dates, cur, windows, max_details, total_requests, req_idx, merged_services,
                   rids, service_templates, idx, ievents, details_fetched,
                   details_failed, invalid_skipped, ierror, budget_exhausted>>
    /\ UNCHANGED <<payloads, chunk_results, details_json>>
    /\ UNCHANGED <<httpVars, metricsVars, servingVars, concurrentVars>>

\* print(result), the last statement of the try block: it returns, or it
\* raises (standard output is closed) into the except clause.
IngestPrint(printed) ==
    /\ ipc = "print"
    /\ IF printed
       THEN ipc' = "returned" /\ UNCHANGED ierror
       ELSE ipc' = "except" /\ ierror' = "BrokenPipeError"
    /\ UNCHANGED <<irun, args, dates, cur, windows, max_details, total_requests, req_idx, merged_services,
                   rids, service_templates, idx, ievents, details_fetched,
                   details_failed, invalid_skipped, budget_exhausted>>
    /\ UNCHANGED <<payloads, chunk_results, details_json>>
    /\ UNCHANGED <<storeVars, httpVars, ledgerVars, metricsVars, servingVars,
                   concurrentVars>>

\* except Exception as e: db.rollback(); job.status = "fail";
\* job.meta = {**job.meta, "error": repr(e)}; db.commit(); raise
IngestExcept ==
    /\ ipc = "except"
    /\ raw' = SubSeq(raw, 1, Len(raw) - uncommitted)
    /\ uncommitted' = 0
    /\ finish_job(irun, "fail", [error |-> ierror])
    /\ ipc' = "raised"
    /\ UNCHANGED <<agg, lpc, events, li, inserted, skipped, run_id, submitted,
                   lastResult, lastOp>>
    /\ UNCHANGED <<irun, args, dates, cur, windows, max_details, total_requests, req_idx, merged_services,
                   rids, service_templates, idx, ievents, details_fetched,
                   details_failed, invalid_skipped, ierror, budget_exhausted>>
    /\ UNCHANGED <<payloads, chunk_results, details_json>>
    /\ UNCHANGED <<httpVars, metricsVars, servingVars, concurrentVars>>

InitIngest ==
    /\ ipc = "idle"
    /\ irun = 0
    /\ args = None
    /\ dates = <<>>
    /\ cur = 0
    /\ windows = <<>>
    /\ payloads = <<>>
    /\ chunk_results = <<>>
    /\ details_json = None
    /\ max_details = 0
    /\ total_requests = 0
    /\ req_idx = 0
    /\ merged_services = <<>>
    /\ rids = <<>>
    /\ service_templates = [rid \in {} |-> None]
    /\ idx = 0
    /\ ievents = <<>>
    /\ details_fetched = 0
    /\ details_failed = 0
    /\ invalid_skipped = 0
    /\ ierror = "none"
    /\ budget_exhausted = [metrics |-> 0, details |-> 0]

(***************************************************************************)
(* scoring/v1/slot_metrics.py.  A Python float is modelled as the exact    *)
(* fraction <<numerator, denominator>> in lowest terms with a positive     *)
(* denominator; the rounding error of binary floating point is left out.   *)
(***************************************************************************)
RECURSIVE gcd(_, _)
gcd(a, b) == IF b = 0 THEN a ELSE gcd(b, a % b)

Frac(n, d) ==
    LET g == gcd(IF n < 0 THEN 0 - n ELSE n, IF d < 0 THEN 0 - d ELSE d)
        s == IF d < 0 THEN 0 - 1 ELSE 1
    IN  <<(s * n) \div g, (s * d) \div g>>

\* Sums and products cancel common factors before they multiply.
Plus(x, y) ==
    LET g == gcd(x[2], y[2])
    IN  Frac(x[1] * (y[2] \div g) + y[1] * (x[2] \div g),
             (x[2] \div g) * y[2])

Minus(x, y) == Plus(x, <<0 - y[1], y[2]>>)

Times(x, y) ==
    LET a == Frac(x[1], y[2])
        b == Frac(y[1], x[2])
    IN  Frac(a[1] * b[1], a[2] * b[2])

Over(x, y) == Times(x, Frac(y[2], y[1]))

Le(x, y) ==
    LET g == gcd(x[2], y[2])
    IN  x[1] * (y[2] \div g) <= y[1] * (x[2] \div g)

Lt(x, y) == ~Le(y, x)

FMin(x, y) == IF Le(x, y) THEN x ELSE y
FMax(x, y) == IF Le(x, y) THEN y ELSE x

\* int(round(x)): Python rounds a half to the even neighbour.
round(x) ==
    LET lower == x[1] \div x[2]
        twice == 2 * (x[1] - lower * x[2])
    IN  IF twice < x[2] THEN lower
        ELSE IF twice > x[2] THEN lower + 1
        ELSE IF lower % 2 = 0 THEN lower ELSE lower + 1

\* A weight is worked out to four decimals and kept to two.
WeightUnit == 100
WeightSteps == 10000

\* math.exp(-math.log(2.0) / half_life_days), the weight that one day of
\* age leaves, in ten-thousandths.
DecayPerDay(half_life_days) ==
    CASE half_life_days = 1 -> 5000
      [] half_life_days = 2 -> 7071
      [] half_life_days = 30 -> 9772

\* per_day to the power age_days, by repeated squaring.
RECURSIVE Decayed(_, _)
Decayed(age_days, per_day) ==
    IF age_days = 0 THEN WeightSteps
    ELSE IF age_days % 2 = 0
    THEN LET half == Decayed(age_days \div 2, per_day)
         IN  (half * half) \div WeightSteps
    ELSE (Decayed(age_days - 1, per_day) * per_day) \div WeightSteps

exp_recency_weight(age_days, half_life_days) ==
    LET age == IF age_days < 0 THEN 0 ELSE age_days
    IN  IF half_life_days <= 0 THEN Frac(1, 1)
        ELSE Frac(Decayed(age, DecayPerDay(half_life_days))
                      \div (WeightSteps \div WeightUnit),
                  WeightUnit)

\* One of the three sums of accumulate_weighted_counts: the rows are added
\* up by halves of their range of dates.
RECURSIVE WeightedSum(_, _, _, _)
WeightedSum(rows, column, metric_date, half_life_days) ==
    IF rows = {} THEN Frac(0, 1)
    ELSE LET first == CHOOSE r \in rows :
                         \A x \in rows : r.service_date <= x.service_date
             last == CHOOSE r \in rows :
                        \A x \in rows : x.service_date <= r.service_date
             middle == (first.service_date + last.service_date) \div 2
             early == IF first.service_date = last.service_date
                      THEN {first}
                      ELSE {r \in rows : r.service_date <= middle}
             w == exp_recency_weight(metric_date - first.service_date,
                                     half_life_days)
         IN  IF early = {first}
             THEN Plus(Times(w, Frac(first[column], 1)),
                       WeightedSum(rows \ early, column, metric_date,
                                   half_life_days))
             ELSE Plus(WeightedSum(early, column, metric_date,
                                   half_life_days),
                       WeightedSum(rows \ early, column, metric_date,
                                   half_life_days))

accumulate_weighted_counts(metric_date, rows, half_life_days) ==
    [w_services |->
        WeightedSum(rows, "n_services", metric_date, half_life_days),
     w_cancelled |->
        WeightedSum(rows, "n_cancelled", metric_date, half_life_days),
     w_disrupted |->
        WeightedSum(rows, "n_disrupted", metric_date, half_life_days)]

\* min(max(x, 0.0), 1.0)
Clamp01(x) == FMin(FMax(x, Frac(0, 1)), Frac(1, 1))

\* The posterior mean with the prior taken as it comes, unclamped.
beta_binomial_smooth_prior_unclamped(successes, trials, prior_p, prior_strength) ==
    IF Le(trials, Frac(0, 1)) THEN prior_p
    ELSE LET alpha == Times(prior_p, prior_strength)
             beta == Times(Minus(Frac(1, 1), prior_p), prior_strength)
         IN  Over(Plus(alpha, successes), Plus(Plus(alpha, beta), trials))

beta_binomial_smooth(successes, trials, prior_p, prior_strength) ==
    IF Le(trials, Frac(0, 1)) THEN Clamp01(prior_p)
    ELSE LET p == Clamp01(prior_p)
             strength == FMax(prior_strength, Frac(0, 1))
             alpha == Times(p, strength)
             beta == Times(Minus(Frac(1, 1), p), strength)
         IN  Over(Plus(alpha, successes), Plus(Plus(alpha, beta), trials))

confidence_band(effective_sample_size) ==
    IF Le(Frac(20, 1), effective_sample_size) THEN "high"
    ELSE IF Le(Frac(8, 1), effective_sample_size) THEN "medium"
    ELSE "low"

\* The score as rounded, without the clamp to 0..100.
compute_slot_metric_unclamped(w_counts, operator_prior_disruption, operator_prior_cancel, prior_strength) ==
    LET p_disruption ==
            beta_binomial_smooth(w_counts.w_disrupted, w_counts.w_services,
                                 operator_prior_disruption, prior_strength)
        p_cancel ==
            beta_binomial_smooth(w_counts.w_cancelled, w_counts.w_services,
                                 operator_prior_cancel, prior_strength)
    IN  [disruption_prob |-> p_disruption,
         cancellation_prob |-> p_cancel,
         reliability_score |->
            round(Times(Frac(100, 1), Minus(Frac(1, 1), p_disruption))),
         effective_sample_size |-> w_counts.w_services,
         confidence_band |-> confidence_band(w_counts.w_services)]

\* Takes the raw rate of cancellations, not smoothed towards the prior.
compute_slot_metric_cancel_unsmoothed(w_counts, operator_prior_disruption, operator_prior_cancel, prior_strength) ==
    LET p_disruption ==
            beta_binomial_smooth(w_counts.w_disrupted, w_counts.w_services,
                                 operator_prior_disruption, prior_strength)
        p_cancel ==
            beta_binomial_smooth(w_counts.w_cancelled, w_counts.w_services,
                                 operator_prior_cancel, Frac(0, 1))
        score ==
            round(Times(Frac(100, 1), Minus(Frac(1, 1), p_disruption)))
        clamped ==
            IF score > 100 THEN 100 ELSE IF score < 0 THEN 0 ELSE score
    IN  [disruption_prob |-> p_disruption,
         cancellation_prob |-> p_cancel,
         reliability_score |-> clamped,
         effective_sample_size |-> w_counts.w_services,
         confidence_band |-> confidence_band(w_counts.w_services)]

compute_slot_metric(w_counts, operator_prior_disruption, operator_prior_cancel, prior_strength) ==
    LET p_disruption ==
            beta_binomial_smooth(w_counts.w_disrupted, w_counts.w_services,
                                 operator_prior_disruption, prior_strength)
        p_cancel ==
            beta_binomial_smooth(w_counts.w_cancelled, w_counts.w_services,
                                 operator_prior_cancel, prior_strength)
        score ==
            round(Times(Frac(100, 1), Minus(Frac(1, 1), p_disruption)))
        clamped ==
            IF score > 100 THEN 100 ELSE IF score < 0 THEN 0 ELSE score
    IN  [disruption_prob |-> p_disruption,
         cancellation_prob |-> p_cancel,
         reliability_score |-> clamped,
         effective_sample_size |-> w_counts.w_services,
         confidence_band |-> confidence_band(w_counts.w_services)]

\* Arguments of a scoring call: counts and priors inside and outside the
\* range that weighted counts of services can take.
MaxCount == 2

ScoringFloats ==
    {Frac(n, d) : n \in (0 - 1)..MaxCount, d \in {1, 2}}

PriorFloats == {Frac(0 - 1, 4), Frac(1, 4), Frac(5, 4)}

\* A call of beta_binomial_smooth.
Smooth(successes, trials, prior_p, prior_strength) ==
    /\ scored' = [fn |-> "beta_binomial_smooth",
                  successes |-> successes, trials |-> trials,
                  prior_p |-> prior_p, prior_strength |-> prior_strength,
                  value |-> beta_binomial_smooth(successes, trials, prior_p,
                                                 prior_strength)]
    /\ UNCHANGED <<slot_metrics_daytype, today, query, reply>>
    /\ UNCHANGED <<storeVars, httpVars, ledgerVars, metricsVars, ingestVars,
                   concurrentVars>>

\* A call of compute_slot_metric.
Score(w_counts, prior_disruption, prior_cancel, prior_strength) ==
    /\ scored' = [fn |-> "compute_slot_metric",
                  w_counts |-> w_counts,
                  prior_p |-> prior_disruption,
                  prior_strength |-> prior_strength,
                  value |-> compute_slot_metric(w_counts, prior_disruption,
                                                prior_cancel,
                                                prior_strength)]
    /\ UNCHANGED <<slot_metrics_daytype, today, query, reply>>
    /\ UNCHANGED <<storeVars, httpVars, ledgerVars, metricsVars, ingestVars,
                   concurrentVars>>

(***************************************************************************)
(* compute_slot_metrics_daytype: the values a run computes from the rows   *)
(* of daily_slot_agg and upserts into slot_metrics_daytype (its ledger     *)
(* and its commits are the Metrics* actions above).                        *)
(***************************************************************************)
\* Reads the day of week as Python's weekday(): 0 = Monday .. 6 = Sunday.
dow_to_day_type_monday_first(dow) ==
    IF dow <= 4 THEN "WEEKDAY"
    ELSE IF dow = 5 THEN "SATURDAY"
    ELSE "SUNDAY"

dow_to_day_type(dow) ==
    IF 1 <= dow /\ dow <= 5 THEN "WEEKDAY"
    ELSE IF dow = 6 THEN "SATURDAY"
    ELSE "SUNDAY"

\* The window taken up to metric_date itself.
DailyRowsThroughMetricDate(table, run) ==
    LET from_date == run.metric_date - run.window_days
        to_date == run.metric_date
        selected == {k \in DOMAIN table :
                        /\ k[1] >= from_date
                        /\ k[1] <= to_date
                        /\ FilterMatches(run.operator, k[2])
                        /\ FilterMatches(run.origin, k[3])
                        /\ FilterMatches(run.destination, k[4])}
    IN  {[service_date |-> k[1], operator |-> k[2], origin |-> k[3],
          destination |-> k[4], dep_hhmm |-> k[5],
          day_type |-> dow_to_day_type(table[k].day_of_week),
          n_services |-> table[k].n_services,
          n_cancelled |-> table[k].n_cancelled,
          n_disrupted |-> table[k].n_disrupted] : k \in selected}

\* _SELECT_DAILY_ROWS, each row with its derived day_type.
DailyRows(table, run) ==
    LET from_date == run.metric_date - run.window_days
        to_date == run.metric_date - 1
        selected == {k \in DOMAIN table :
                        /\ k[1] >= from_date
                        /\ k[1] <= to_date
                        /\ FilterMatches(run.operator, k[2])
                        /\ FilterMatches(run.origin, k[3])
                        /\ FilterMatches(run.destination, k[4])}
    IN  {[service_date |-> k[1], operator |-> k[2], origin |-> k[3],
          destination |-> k[4], dep_hhmm |-> k[5],
          day_type |-> dow_to_day_type(table[k].day_of_week),
          n_services |-> table[k].n_services,
          n_cancelled |-> table[k].n_cancelled,
          n_disrupted |-> table[k].n_disrupted] : k \in selected}

\* No prior of the operator's own: the 0.0 that .get(op, 0.0) falls back to.
OperatorPriorAbsent(rows, op, column, run) == Frac(0, 1)

\* operator_prior_disruption[op] / operator_prior_cancel[op]
OperatorPrior(rows, op, column, run) ==
    LET w_counts ==
            accumulate_weighted_counts(run.metric_date,
                                       {r \in rows : r.operator = op},
                                       run.half_life_days)
    IN  IF Lt(Frac(0, 1), w_counts.w_services)
        THEN Over(w_counts[column], w_counts.w_services)
        ELSE Frac(0, 1)

\* The rows of one run, by the conflict target of _UPSERT_METRICS.
SlotMetricRows(table, run) ==
    LET rows == DailyRows(table, run)
        SlotOf(r) ==
            <<run.metric_date, run.model_version, r.operator, r.origin,
              r.destination, r.day_type, r.dep_hhmm>>
    IN  [k \in {SlotOf(r) : r \in rows} |->
            compute_slot_metric(
                accumulate_weighted_counts(run.metric_date,
                                           {r \in rows : SlotOf(r) = k},
                                           run.half_life_days),
                OperatorPrior(rows, k[3], "w_disrupted", run),
                OperatorPrior(rows, k[3], "w_cancelled", run),
                Frac(run.prior_strength, 1))]

compute_slot_metrics_daytype(run) ==
    /\ slot_metrics_daytype' =
          LET written == SlotMetricRows(agg, run)
          IN  [k \in DOMAIN slot_metrics_daytype \cup DOMAIN written |->
                  IF k \in DOMAIN written THEN written[k]
                  ELSE slot_metrics_daytype[k]]
    /\ scored' = [fn |-> "compute_slot_metrics_daytype", run |-> run]
    /\ UNCHANGED <<today, query, reply>>
    /\ UNCHANGED <<storeVars, httpVars, ledgerVars, metricsVars, ingestVars,
                   concurrentVars>>

InitServing ==
    /\ slot_metrics_daytype = << >>
    /\ today = 0
    /\ scored = [fn |-> "none"]
    /\ query = [date_str |-> None]
    /\ reply = [status_code |-> 0, body |-> <<>>]

InitConcurrent ==
    /\ sessions = << >>
    /\ reader = [pc |-> "idle", metric_date |-> None, rows |-> 0]
    /\ backfill = [pc |-> "idle"]

InitStore ==
    /\ raw = <<>>
    /\ agg = << >>
    /\ lpc = "idle"
    /\ events = <<>>
    /\ li = 0
    /\ inserted = 0
    /\ skipped = 0
    /\ run_id = 0
    /\ submitted = 0
    /\ uncommitted = 0
    /\ lastResult = [total |-> 0, inserted |-> 0, skipped |-> 0]
    /\ lastOp = [kind |-> "none", p |-> None, n |-> 0]

\* HSP_RETRIES defaults to "6"; any integer can be configured.
RetriesRange == (0 - 1)..MaxRetries

Init ==
    /\ InitStore /\ InitServing /\ InitConcurrent
    /\ InitHttp /\ retries = MaxRetries /\ InitLedger
    /\ InitMetrics /\ InitIngest

Next ==
    \/ \E batch \in Batches : LoadStart(batch)
    \/ LoadEvent
    \/ LoadFinish
    \/ \E p \in RollupParams : run_daily_slot_aggs(p)

Spec == Init /\ [][Next]_vars

InitHttpCall ==
    /\ InitStore /\ InitServing /\ InitConcurrent
    /\ InitHttp /\ InitLedger /\ InitMetrics /\ InitIngest
    /\ retries \in RetriesRange

NextHttp ==
    \/ post_with_retry
    \/ \E o \in AttemptOutcomes : HttpAttempt(o)
    \/ sleep_backoff

SpecHttp == InitHttpCall /\ [][NextHttp]_vars

\* One metrics run, over tables that may hold an earlier run's rows.
InitMetricsRun ==
    /\ InitStore /\ InitServing /\ InitConcurrent
    /\ InitHttp /\ retries = MaxRetries /\ InitLedger
    /\ InitIngest
    /\ mpc = "idle"
    /\ mrun = 0
    /\ variant = "slot_metrics"
    /\ commit = TRUE
    /\ slot_count = 0
    /\ operators_seen = 0
    /\ slots_written = 0
    /\ \E n \in {0, 2} : metrics = EarlierRows(n)
    /\ metricsCommitted = metrics

NextMetrics ==
    \/ \E t \in {"slot_metrics", "slot_metrics_daytype"}, c \in BOOLEAN :
          MetricsStart(t, c)
    \/ \E w \in WindowRows : MetricsLoadRows(w)
    \/ MetricsWriteSlot
    \/ MetricsBatchCommitRaise
    \/ MetricsFinish
    \/ MetricsRaise
    \/ MetricsExcept

SpecMetrics == InitMetricsRun /\ [][NextMetrics]_vars

(***************************************************************************)
(* SpecPublish: a GET /v1/reliability whose SELECTs run while a day-type   *)
(* metrics run writes the rows of a metric_date the table does not hold    *)
(* yet.  Each SELECT sees what is committed when it runs.                  *)
(***************************************************************************)
\* The committed rows of slot_metrics_daytype.
CommittedDayTypeRows ==
    {k \in DOMAIN metricsCommitted : k[1] = "slot_metrics_daytype"}

\* latest_metric_date = db.execute(SELECT MAX(metric_date) ...).scalar_one();
\* "if latest_metric_date is None" raises the 500.
ReaderSelectDate ==
    /\ reader.pc = "idle"
    /\ reader' =
          IF CommittedDayTypeRows = {}
          THEN [pc |-> "done", metric_date |-> None, rows |-> 0]
          ELSE [pc |-> "selected", metric_date |-> Some(mrun), rows |-> 0]
    /\ UNCHANGED <<sessions, backfill>>
    /\ UNCHANGED <<storeVars, httpVars, ledgerVars, metricsVars, ingestVars,
                   servingVars>>

\* rows = db.execute(metrics_sql, ...): the slots among the candidates that
\* get a slot-level entry; the others get the baseline fallback.
ReaderFetchMetrics ==
    /\ reader.pc = "selected"
    /\ reader' = [reader EXCEPT !.pc = "done",
                                !.rows = Cardinality(CommittedDayTypeRows)]
    /\ UNCHANGED <<sessions, backfill>>
    /\ UNCHANGED <<storeVars, httpVars, ledgerVars, metricsVars, ingestVars,
                   servingVars>>

InitPublish ==
    /\ InitMetricsRun
    /\ metrics = << >>

NextPublish ==
    \/ \E c \in BOOLEAN : MetricsStart("slot_metrics_daytype", c)
    \/ \E w \in WindowRows : MetricsLoadRows(w)
    \/ MetricsWriteSlot
    \/ MetricsBatchCommitRaise
    \/ MetricsFinish
    \/ MetricsRaise
    \/ MetricsExcept
    \/ ReaderSelectDate
    \/ ReaderFetchMetrics

SpecPublish == InitPublish /\ [][NextPublish]_vars

\* What a request of an ingest run can come to.
JobOutcomes ==
    {[type |-> "response", status |-> st] : st \in {200, 503, 404}}
    \cup {[type |-> "ReadTimeout", status |-> 0]}

Plan(from_date, to_date, from_time, to_time, days, step, filter) ==
    [from_date |-> from_date, to_date |-> to_date, from_time |-> from_time,
     to_time |-> to_time, days |-> days, metrics_window_minutes |-> step,
     metrics_filter_weekdays |-> filter]

\* Runs over 06:30 to 07:00 in one window per date, for 0 to MaxChunks dates.
JobPlans ==
    {Plan(5, 4 + n, 630, 700, "SATURDAY", 60, TRUE) : n \in 0..MaxChunks}

\* One ingest run or one metrics run, under any configuration of
\* HSP_RETRIES and HSP_MAX_DETAILS.
InitJobs ==
    /\ InitStore /\ InitServing /\ InitConcurrent
    /\ InitHttp /\ InitLedger /\ InitMetrics
    /\ retries \in 0..MaxRetries
    /\ ipc = "idle"
    /\ irun = 0
    /\ args = None
    /\ dates = <<>>
    /\ cur = 0
    /\ windows = <<>>
    /\ payloads = <<>>
    /\ chunk_results = <<>>
    /\ details_json = None
    /\ max_details \in {0 - 1, 0, 1}
    /\ total_requests = 0
    /\ req_idx = 0
    /\ merged_services = <<>>
    /\ rids = <<>>
    /\ service_templates = [rid \in {} |-> None]
    /\ idx = 0
    /\ ievents = <<>>
    /\ details_fetched = 0
    /\ details_failed = 0
    /\ invalid_skipped = 0
    /\ ierror = "none"
    /\ budget_exhausted = [metrics |-> 0, details |-> 0]

NextIngest ==
    \/ IngestStart
    \/ \E configured \in BOOLEAN, a \in JobPlans : IngestSource(configured, a)
    \/ IngestPlan
    \/ TimeWindowsPass
    \/ TimeWindowsReturn
    \/ IngestChunkRequest
    \/ \E o \in JobOutcomes : HttpAttempt(o)
    \/ sleep_backoff
    \/ \E services \in ChunkResponses : IngestChunkReturn(services)
    \/ IngestChunkRaise
    \/ IngestExtract
    \/ IngestDetailRequest
    \/ \E body \in DetailResponses : IngestDetailReturn(body)
    \/ IngestDetailRaise
    \/ IngestLoadStart
    \/ LoadEvent
    \/ IngestLoadRaise
    \/ IngestSuccess
    \/ \E printed \in BOOLEAN : IngestPrint(printed)
    \/ IngestExcept

NextJobs == NextIngest \/ NextMetrics

SpecJobs == InitJobs /\ [][NextJobs]_vars

\* Time ranges of a plan: half an hour, an empty and a reversed range, the
\* last minutes of the day, and a to_time that is no time of day.
TimeRanges ==
    {<<630, 700>>, <<630, 630>>, <<2350, 700>>, <<2350, 2359>>, <<630, 2400>>}

\* Day 5 is a Friday, 6 a Saturday, 7 a Sunday, 8 a Monday.
Plans ==
    {Plan(dr[1], dr[2], tr[1], tr[2], days, step, filter) :
        dr \in {<<5, 4>>, <<5, 5>>, <<5, 6>>, <<7, 8>>},
        tr \in TimeRanges,
        days \in {"WEEKDAY", "SATURDAY"},
        step \in {0 - 30, 0, 12, 20, 600},
        filter \in BOOLEAN}

\* "Services" of a chunk in the WindowPlanner runs.
PlannerResponses ==
    {<<ServiceEntry(<<"r1">>, Some(810), Some(840), Some("GW"))>>,
     <<ServiceEntry(<<"r2">>, Some(810), Some(840), Some("XC")),
       ServiceEntry(<<"r1">>, Some(810), Some(840), Some("GW"))>>}

\* One ingest run up to the end of fetch_service_metrics_chunked, with one
\* attempt per request.
InitPlanner ==
    /\ InitStore /\ InitServing /\ InitConcurrent
    /\ InitHttp /\ InitLedger /\ InitMetrics /\ InitIngest
    /\ retries = 1

NextPlanner ==
    \/ IngestStart
    \/ \E configured \in BOOLEAN, a \in Plans : IngestSource(configured, a)
    \/ IngestPlan
    \/ TimeWindowsPass
    \/ TimeWindowsReturn
    \/ IngestChunkRequest
    \/ \E o \in JobOutcomes : HttpAttempt(o)
    \/ sleep_backoff
    \/ \E services \in PlannerResponses : IngestChunkReturn(services)
    \/ IngestChunkRaise
    \/ IngestExtract
    \/ IngestExcept

SpecPlanner == InitPlanner /\ [][NextPlanner]_vars

(***************************************************************************)
(* SpecScoring: calls of the scoring functions on bounded arguments.       *)
(* SpecEngine: day-type metrics runs over bounded daily_slot_agg tables.   *)
(***************************************************************************)
InitScoring ==
    /\ InitStore /\ InitServing /\ InitConcurrent
    /\ InitHttp /\ retries = MaxRetries
    /\ InitLedger /\ InitMetrics /\ InitIngest

NextScoring ==
    \/ \E successes \in ScoringFloats, trials \in ScoringFloats,
          prior_p \in PriorFloats,
          prior_strength \in {Frac(0 - 1, 1), Frac(0, 1), Frac(10, 1)} :
          Smooth(successes, trials, prior_p, prior_strength)
    \/ \E w_services \in ScoringFloats, w_disrupted \in ScoringFloats,
          prior_p \in PriorFloats,
          prior_strength \in {Frac(0, 1), Frac(10, 1)} :
          Score([w_services |-> w_services, w_cancelled |-> Frac(0, 1),
                 w_disrupted |-> w_disrupted],
                prior_p, Frac(0, 1), prior_strength)

SpecScoring == InitScoring /\ [][NextScoring]_vars

\* Rows of ScenarioTable.
ScenarioRows == 50

SlotCounts(dow, n_services, n_cancelled, n_disrupted) ==
    [day_of_week |-> dow, n_services |-> n_services,
     n_cancelled |-> n_cancelled,
     n_delayed_gt5 |-> n_disrupted - n_cancelled,
     n_disrupted |-> n_disrupted]

\* One operator's 08:10 from RDG to PAD on ScenarioRows consecutive days up
\* to day 70, ten services and one of them disrupted on each day.  The rows
\* are all marked as weekdays, or carry the day of week of their date.
ScenarioTable(all_weekdays) ==
    [k \in {<<70 - age, "GW", FromLoc, ToLoc, <<8, 10>>>> :
                age \in 0..(ScenarioRows - 1)} |->
        SlotCounts(IF all_weekdays THEN 1 + (k[1] % 5)
                   ELSE day_of_week(k[1]), 10, 0, 1)]

\* Two operators and two departure times over the last week before day 70.
MixedTable ==
    (<<69, "GW", FromLoc, ToLoc, <<8, 10>>>> :> SlotCounts(6, 3, 0, 0))
    @@ (<<69, "GW", FromLoc, ToLoc, <<8, 40>>>> :> SlotCounts(6, 2, 1, 2))
    @@ (<<68, "XC", FromLoc, ToLoc, <<8, 10>>>> :> SlotCounts(5, 1, 0, 1))
    @@ (<<63, "GW", FromLoc, ToLoc, <<8, 10>>>> :> SlotCounts(0, 2, 0, 1))

DailyTables ==
    {<< >>, MixedTable, ScenarioTable(TRUE), ScenarioTable(FALSE)}

\* The parameters of a run: window_days and prior_strength at their
\* defaults.
EngineRuns ==
    {[metric_date |-> 70, model_version |-> mv, window_days |-> 90,
      half_life_days |-> hl, prior_strength |-> 10, operator |-> op,
      origin |-> None, destination |-> None] :
        mv \in {"v1_daytype", "v2"}, hl \in {1, 30},
        op \in {None, Some("GW")}}

InitEngine ==
    /\ InitConcurrent
    /\ InitHttp /\ retries = MaxRetries /\ InitLedger /\ InitMetrics
    /\ InitIngest
    /\ raw = <<>>
    /\ agg \in DailyTables
    /\ lpc = "idle"
    /\ events = <<>>
    /\ li = 0
    /\ inserted = 0
    /\ skipped = 0
    /\ run_id = 0
    /\ submitted = 0
    /\ uncommitted = 0
    /\ lastResult = [total |-> 0, inserted |-> 0, skipped |-> 0]
    /\ lastOp = [kind |-> "none", p |-> None, n |-> 0]
    /\ slot_metrics_daytype = << >>
    /\ today = 70
    /\ scored = [fn |-> "none"]
    /\ query = [date_str |-> None]
    /\ reply = [status_code |-> 0, body |-> <<>>]

NextEngine == \E run \in EngineRuns : compute_slot_metrics_daytype(run)

SpecEngine == InitEngine /\ [][NextEngine]_vars

(***************************************************************************)
(* GET /v1/reliability (get_reliability).  date_str is the day ordinal of  *)
(* the date it spells and arrive_by the number its digits spell (09:00 is  *)
(* 900), each Malformed when it is not of that form; a local time is its   *)
(* count of minutes from day 0, as on days without a change of clock.      *)
(***************************************************************************)
day_type_for_date(d) ==
    IF weekday(d) <= 4 THEN "WEEKDAY"
    ELSE IF weekday(d) = 5 THEN "SATURDAY"
    ELSE "SUNDAY"

\* dow_filter_sql, as the condition on a row's day_of_week.
dow_filter_sql(day_type, dow) ==
    IF day_type = "WEEKDAY" THEN 1 <= dow /\ dow <= 5
    ELSE IF day_type = "SATURDAY" THEN dow = 6
    ELSE dow = 0

\* LONDON.localize(datetime.combine(d, time(h, m)))
LocalTime(d, hm) == d * 1440 + MinuteOfDay(hm)

RECURSIVE SumServices(_, _)
SumServices(table, keys) ==
    IF keys = {} THEN 0
    ELSE LET k == CHOOSE x \in keys : TRUE
         IN  table[k].n_services + SumServices(table, keys \ {k})

\* ORDER BY dep_hhmm
RECURSIVE OrderByDepHhmm(_)
OrderByDepHhmm(hhmms) ==
    IF hhmms = {} THEN <<>>
    ELSE LET first == CHOOSE h \in hhmms :
                         \A x \in hhmms : MinuteOfDay(h) <= MinuteOfDay(x)
         IN  <<first>> \o OrderByDepHhmm(hhmms \ {first})

\* candidates_sql
Candidates(q, day_type) ==
    LET scope == {k \in DOMAIN agg :
                     /\ k[3] = q.from_loc
                     /\ k[4] = q.to_loc
                     /\ k[1] >= today - 90
                     /\ dow_filter_sql(day_type, agg[k].day_of_week)
                     /\ FilterMatches(q.operator, k[2])}
        OfTime(hhmm) == {k \in scope : k[5] = hhmm}
    IN  OrderByDepHhmm({hhmm \in {k[5] : k \in scope} :
                           SumServices(agg, OfTime(hhmm)) >= q.min_services})

\* The window test with the lower bound left out.
InWindowUpTo(d, hhmm, arrive_t, window_minutes) ==
    LocalTime(d, hhmm) <= LocalTime(d, arrive_t)

\* window_start <= dep_dt <= arrive_dt
InWindow(d, hhmm, arrive_t, window_minutes) ==
    /\ LocalTime(d, arrive_t) - window_minutes <= LocalTime(d, hhmm)
    /\ LocalTime(d, hhmm) <= LocalTime(d, arrive_t)

\* The latest metric_date among the rows of the day-type model only.
LatestMetricDateOfModel ==
    LET rows == {k \in DOMAIN slot_metrics_daytype : k[2] = "v1_daytype"}
    IN  IF rows = {} THEN None
        ELSE Some(CHOOSE d \in {k[1] : k \in rows} :
                     \A k \in rows : k[1] <= d)

\* SELECT MAX(metric_date) FROM slot_metrics_daytype
LatestMetricDate ==
    IF DOMAIN slot_metrics_daytype = {} THEN None
    ELSE Some(CHOOSE d \in {k[1] : k \in DOMAIN slot_metrics_daytype} :
                 \A k \in DOMAIN slot_metrics_daytype : k[1] <= d)

\* The WHERE clause that metrics_sql and baseline_sql share.
MetricScope(q, metric_date, day_type) ==
    {k \in DOMAIN slot_metrics_daytype :
        /\ k[1] = metric_date
        /\ k[2] = "v1_daytype"
        /\ k[4] = q.from_loc
        /\ k[5] = q.to_loc
        /\ k[6] = day_type
        /\ FilterMatches(q.operator, k[3])}

RECURSIVE SumColumn(_, _)
SumColumn(keys, column) ==
    IF keys = {} THEN Frac(0, 1)
    ELSE LET k == CHOOSE x \in keys : TRUE
         IN  Plus(slot_metrics_daytype[k][column],
                  SumColumn(keys \ {k}, column))

\* The total of the column, not divided by the number of rows.
BaselineTotal(keys, column) == SumColumn(keys, column)

\* AVG(column) over the scope, or 0.0 for the NULL of an empty scope.
Baseline(keys, column) ==
    IF keys = {} THEN Frac(0, 1)
    ELSE Over(SumColumn(keys, column), Frac(Cardinality(keys), 1))

\* The by_hhmm dicts that rows can build: the rows come in no stated
\* order, and of two rows with one dep_hhmm the later one stays.
ByHhmm(rows) ==
    {m \in [{k[7] : k \in rows} -> rows] :
        \A hhmm \in DOMAIN m : m[hhmm][7] = hhmm}

SlotEntry(d, hhmm, k) ==
    [departure_time |-> LocalTime(d, hhmm), dep_hhmm |-> hhmm,
     operator |-> Some(k[3]),
     disruption_prob |-> slot_metrics_daytype[k].disruption_prob,
     cancellation_prob |-> slot_metrics_daytype[k].cancellation_prob,
     reliability_score |-> slot_metrics_daytype[k].reliability_score,
     effective_sample_size |->
        slot_metrics_daytype[k].effective_sample_size,
     confidence_band |-> slot_metrics_daytype[k].confidence_band,
     coverage |-> "slot"]

BaselineEntry(d, hhmm, q, scope) ==
    [departure_time |-> LocalTime(d, hhmm), dep_hhmm |-> hhmm,
     operator |-> q.operator,
     disruption_prob |-> Baseline(scope, "disruption_prob"),
     cancellation_prob |-> Baseline(scope, "cancellation_prob"),
     reliability_score |->
        round(Times(Frac(100, 1),
                    Minus(Frac(1, 1), Baseline(scope, "disruption_prob")))),
     effective_sample_size |-> Frac(0, 1),
     confidence_band |-> "low",
     coverage |-> "baseline_fallback"]

HTTPException(status_code) == [status_code |-> status_code, body |-> <<>>]

\* The answers get_reliability can give to q.
Responses(q) ==
    IF q.date_str = Malformed THEN {HTTPException(400)}
    ELSE IF q.arrive_by = Malformed \/ ~ValidClock(parse_hhmm(q.arrive_by[1]))
    THEN {HTTPException(400)}
    ELSE IF LatestMetricDate = None THEN {HTTPException(500)}
    ELSE
    LET d == q.date_str[1]
        arrive_t == parse_hhmm(q.arrive_by[1])
        day_type == day_type_for_date(d)
        filtered_hhmms ==
            SelectSeq(Candidates(q, day_type),
                      LAMBDA hhmm :
                          InWindow(d, hhmm, arrive_t, q.window_minutes))
        scope == MetricScope(q, LatestMetricDate[1], day_type)
        rows == {k \in scope :
                    \E i \in DOMAIN filtered_hhmms : filtered_hhmms[i] = k[7]}
    IN  IF filtered_hhmms = <<>>
        THEN {[status_code |-> 200, body |-> <<>>]}
        ELSE {[status_code |-> 200,
               body |-> [i \in DOMAIN filtered_hhmms |->
                           IF filtered_hhmms[i] \in DOMAIN by_hhmm
                           THEN SlotEntry(d, filtered_hhmms[i],
                                          by_hhmm[filtered_hhmms[i]])
                           ELSE BaselineEntry(d, filtered_hhmms[i], q,
                                              scope)]] :
                by_hhmm \in ByHhmm(rows)}

get_reliability(q) ==
    /\ query' = q
    /\ reply' \in Responses(q)
    /\ UNCHANGED <<slot_metrics_daytype, today, scored>>
    /\ UNCHANGED <<storeVars, httpVars, ledgerVars, metricsVars, ingestVars,
                   concurrentVars>>

(***************************************************************************)
(* SpecQuery: queries for RDG to PAD, asked on day 175 (a Sunday).         *)
(***************************************************************************)
\* daily_slot_agg: rows of the last week (day 171 is a Wednesday, 174 a
\* Saturday), one row older than 90 days, and one of the opposite corridor.
QueryDailyTable ==
    [k \in {<<171, "GW", FromLoc, ToLoc, <<8, 10>>>>,
            <<172, "GW", FromLoc, ToLoc, <<8, 10>>>>,
            <<171, "XC", FromLoc, ToLoc, <<8, 10>>>>,
            <<171, "GW", FromLoc, ToLoc, <<8, 40>>>>,
            <<171, "XC", FromLoc, ToLoc, <<9, 0>>>>,
            <<171, "GW", FromLoc, ToLoc, <<8, 0>>>>,
            <<171, "GW", FromLoc, ToLoc, <<7, 59>>>>,
            <<171, "GW", FromLoc, ToLoc, <<9, 1>>>>,
            <<171, "GW", FromLoc, ToLoc, <<8, 30>>>>,
            <<80, "GW", FromLoc, ToLoc, <<8, 30>>>>,
            <<174, "GW", FromLoc, ToLoc, <<8, 20>>>>,
            <<171, "GW", ToLoc, FromLoc, <<8, 15>>>>,
            <<171, "GW", FromLoc, ToLoc, <<0, 10>>>>,
            <<171, "GW", FromLoc, ToLoc, <<23, 45>>>>} |->
        SlotCounts(day_of_week(k[1]),
                   IF k[5] = <<8, 10>> /\ k[1] = 171 /\ k[2] = "GW" THEN 6
                   ELSE IF k[5] = <<8, 10>> /\ k[2] = "GW" THEN 4
                   ELSE IF k[5] = <<8, 10>> THEN 3
                   ELSE IF k[5] = <<8, 30>> /\ k[1] = 171 THEN 2
                   ELSE 10,
                   0, 0)]

\* Keys of slot_metrics_daytype rows, and under each the weighted counts
\* <<services, disrupted>> its values were computed from.
QueryMetricKeys ==
    {<<175, "v1_daytype", "GW", FromLoc, ToLoc, "WEEKDAY", <<8, 10>>>>,
     <<175, "v1_daytype", "XC", FromLoc, ToLoc, "WEEKDAY", <<8, 10>>>>,
     <<175, "v1_daytype", "GW", FromLoc, ToLoc, "WEEKDAY", <<7, 0>>>>,
     <<175, "v2", "GW", FromLoc, ToLoc, "WEEKDAY", <<8, 40>>>>,
     <<176, "v1_daytype", "GW", ToLoc, FromLoc, "WEEKDAY", <<8, 15>>>>,
     <<174, "v1_daytype", "GW", FromLoc, ToLoc, "WEEKDAY", <<8, 40>>>>}

QueryMetricCounts(k) ==
    IF k[3] = "XC" THEN <<2, 1>>
    ELSE IF k[7] = <<8, 10>> THEN <<8, 1>>
    ELSE IF k[7] = <<7, 0>> THEN <<24, 9>>
    ELSE <<4, 1>>

QueryMetricTables ==
    {[k \in keys |->
        compute_slot_metric([w_services |-> Frac(QueryMetricCounts(k)[1], 1),
                             w_cancelled |-> Frac(0, 1),
                             w_disrupted |-> Frac(QueryMetricCounts(k)[2], 1)],
                            Frac(0, 1), Frac(0, 1), Frac(0, 1))] :
        keys \in SUBSET QueryMetricKeys}

\* Monday 176 and Saturday 181; arrival by 09:00, by 00:30, and "24:60".
Queries ==
    {[from_loc |-> FromLoc, to_loc |-> ToLoc, date_str |-> date_str,
      arrive_by |-> arrive_by, operator |-> operator,
      window_minutes |-> window_minutes, min_services |-> min_services] :
        date_str \in {Some(176), Some(181), Malformed},
        arrive_by \in {Some(900), Some(30), Some(2460), Malformed},
        operator \in {None, Some("GW")},
        window_minutes \in {30, 60},
        min_services \in {1, 10}}

InitQuery ==
    /\ InitConcurrent
    /\ InitHttp /\ retries = MaxRetries /\ InitLedger /\ InitMetrics
    /\ InitIngest
    /\ raw = <<>>
    /\ agg = QueryDailyTable
    /\ lpc = "idle"
    /\ events = <<>>
    /\ li = 0
    /\ inserted = 0
    /\ skipped = 0
    /\ run_id = 0
    /\ submitted = 0
    /\ uncommitted = 0
    /\ lastResult = [total |-> 0, inserted |-> 0, skipped |-> 0]
    /\ lastOp = [kind |-> "none", p |-> None, n |-> 0]
    /\ slot_metrics_daytype \in QueryMetricTables
    /\ today = 175
    /\ scored = [fn |-> "none"]
    /\ query = [date_str |-> None]
    /\ reply = [status_code |-> 0, body |-> <<>>]

NextQuery == \E q \in Queries : get_reliability(q)

SpecQuery == InitQuery /\ [][NextQuery]_vars

(***************************************************************************)
(* SpecCalendar: nine days of services (day 169 is a Monday, day 175 a     *)
(* Sunday, day 177 a Tuesday) are rolled up, scored on day 176 and queried *)
(* for each day of the week from day 176.  The service of day 168 + i      *)
(* leaves at 08:00 + 5i, so a departure time names its date; those of the  *)
(* Monday and the Saturday were cancelled, those of the Tuesday and the    *)
(* Sunday late.                                                            *)
(***************************************************************************)
CalendarOutcome(i) ==
    IF i \in {1, 6} THEN "cancelled"
    ELSE IF i \in {2, 7} THEN "late"
    ELSE "ontime"

CalendarRaw ==
    [i \in 1..9 |->
        RawServiceEvent(
            CanonicalServiceEvent(168 + i, "GW", 480 + 5 * i, 0,
                                  CalendarOutcome(i)),
            1)]

CalendarRollups ==
    {[from_date |-> f, to_date |-> t, operator |-> None, origin |-> None,
      destination |-> None] : f \in {169, 172}, t \in {173, 177}}

CalendarRuns ==
    {[metric_date |-> 176, model_version |-> "v1_daytype",
      window_days |-> w, half_life_days |-> 0, prior_strength |-> 10,
      operator |-> None, origin |-> None, destination |-> None] :
        w \in {2, 7}}

CalendarQueries ==
    {[from_loc |-> FromLoc, to_loc |-> ToLoc, date_str |-> Some(d),
      arrive_by |-> Some(900), operator |-> None,
      window_minutes |-> 60, min_services |-> 1] : d \in 176..182}

InitCalendar ==
    /\ InitConcurrent
    /\ InitHttp /\ retries = MaxRetries /\ InitLedger /\ InitMetrics
    /\ InitIngest
    /\ raw = CalendarRaw
    /\ agg = << >>
    /\ lpc = "idle"
    /\ events = <<>>
    /\ li = 0
    /\ inserted = 0
    /\ skipped = 0
    /\ run_id = 1
    /\ submitted = 0
    /\ uncommitted = 0
    /\ lastResult = [total |-> 0, inserted |-> 0, skipped |-> 0]
    /\ lastOp = [kind |-> "none", p |-> None, n |-> 0]
    /\ slot_metrics_daytype = << >>
    /\ today = 176
    /\ scored = [fn |-> "none"]
    /\ query = [date_str |-> None]
    /\ reply = [status_code |-> 0, body |-> <<>>]

NextCalendar ==
    \/ \E p \in CalendarRollups : run_daily_slot_aggs(p)
    \/ \E run \in CalendarRuns : compute_slot_metrics_daytype(run)
    \/ \E q \in CalendarQueries : get_reliability(q)

SpecCalendar == InitCalendar /\ [][NextCalendar]_vars

(***************************************************************************)
(* SpecLoaders: two load_events calls side by side, each in a database     *)
(* session of its own (READ COMMITTED).  A session sees the committed rows *)
(* and its own; an INSERT whose service_key another session has inserted   *)
(* and not yet committed waits for that session's transaction to end.      *)
(***************************************************************************)
\* The keys of the rows session s has inserted and not committed.
PendingKeys(s) ==
    {sessions[s].pending[j].service_key : j \in DOMAIN sessions[s].pending}

\* db.execute(stmt) of session s waits on the unique index.
WaitsForLock(s) ==
    /\ sessions[s].pc = "loop"
    /\ sessions[s].i < Len(sessions[s].events)
    /\ \E o \in DOMAIN sessions \ {s} :
          sessions[s].events[sessions[s].i + 1].service_key \in PendingKeys(o)

\* One pass of the loop of load_events in session s.
SessionInsert(s) ==
    /\ s \in DOMAIN sessions
    /\ sessions[s].pc = "loop"
    /\ sessions[s].i < Len(sessions[s].events)
    /\ ~WaitsForLock(s)
    /\ LET me == sessions[s]
           ev == me.events[me.i + 1]
           before == raw \o me.pending
           after == InsertOnConflictDoNothing(
                        before, RawServiceEvent(ev, me.run_id))
           row == fetchone(before, after)
           commits == (me.i + 1) % CommitEvery = 0
       IN  /\ raw' = IF commits THEN after ELSE raw
           /\ sessions' =
                 [sessions EXCEPT
                    ![s].i = me.i + 1,
                    ![s].inserted =
                        IF PyEqualsInt(row, 1) THEN @ + 1 ELSE @,
                    ![s].skipped =
                        IF PyEqualsInt(row, 1) THEN @ ELSE @ + 1,
                    ![s].pending =
                        IF commits THEN <<>>
                        ELSE SubSeq(after, Len(raw) + 1, Len(after))]
    /\ UNCHANGED <<agg, lpc, events, li, inserted, skipped, run_id, submitted,
                   uncommitted, lastResult, lastOp, reader, backfill>>
    /\ UNCHANGED <<httpVars, ledgerVars, metricsVars, ingestVars, servingVars>>

\* db.commit(); return {...} in session s.
SessionReturn(s) ==
    /\ s \in DOMAIN sessions
    /\ sessions[s].pc = "loop"
    /\ sessions[s].i = Len(sessions[s].events)
    /\ raw' = raw \o sessions[s].pending
    /\ sessions' = [sessions EXCEPT ![s].pc = "returned",
                                    ![s].pending = <<>>]
    /\ UNCHANGED <<agg, lpc, events, li, inserted, skipped, run_id, submitted,
                   uncommitted, lastResult, lastOp, reader, backfill>>
    /\ UNCHANGED <<httpVars, ledgerVars, metricsVars, ingestVars, servingVars>>

\* Every session waits for another: the database ends the cycle by
\* aborting the statement of one of them (deadlock detected), whose
\* db.execute raises out of load_events and whose transaction is rolled back.
DeadlockDetected(s) ==
    /\ s \in DOMAIN sessions
    /\ \A o \in DOMAIN sessions : WaitsForLock(o)
    /\ sessions' = [sessions EXCEPT ![s].pc = "raised",
                                    ![s].pending = <<>>]
    /\ UNCHANGED <<raw, agg, lpc, events, li, inserted, skipped, run_id,
                   submitted, uncommitted, lastResult, lastOp, reader, backfill>>
    /\ UNCHANGED <<httpVars, ledgerVars, metricsVars, ingestVars, servingVars>>

\* Two departures of day 5, the first of them also with another outcome.
PairEvents ==
    {CanonicalServiceEvent(5, "GW", 490, 0, "ontime"),
     CanonicalServiceEvent(5, "GW", 490, 0, "late"),
     CanonicalServiceEvent(5, "GW", 490, 30, "ontime")}

PairBatches == UNION {[1..n -> PairEvents] : n \in 0..MaxBatch}

InitLoaders ==
    /\ InitStore /\ InitServing
    /\ InitHttp /\ retries = MaxRetries /\ InitLedger
    /\ InitMetrics /\ InitIngest
    /\ reader = [pc |-> "idle", metric_date |-> None, rows |-> 0]
    /\ backfill = [pc |-> "idle"]
    /\ sessions \in
          {[s \in {1, 2} |->
              [pc |-> "loop", events |-> IF s = 1 THEN b1 ELSE b2, i |-> 0,
               inserted |-> 0, skipped |-> 0, pending |-> <<>>,
               run_id |-> s]] : b1 \in PairBatches, b2 \in PairBatches}

NextLoaders ==
    \E s \in {1, 2} :
        \/ SessionInsert(s)
        \/ SessionReturn(s)
        \/ DeadlockDetected(s)

SpecLoaders == InitLoaders /\ [][NextLoaders]_vars

(***************************************************************************)
(* backfill_hsp: one subprocess per step, each with check=True.  For every *)
(* day mode and every chunk of dates it runs the ingest and then the       *)
(* rollup; after the loops it runs the metrics runner once.  SpecBackfill  *)
(* runs one backfill on day 176 and then serves queries.                   *)
(***************************************************************************)
IngestModule == "app.jobs.ingest.run_ingest"

RollupModule == "app.jobs.rollup.run_daily_slot_agg"

MetricsModule == "app.jobs.compute_slot_metrics.run_compute_slot_metrics"

DayTypeMetricsModule ==
    "app.jobs.compute_slot_metrics.run_compute_slot_metrics_daytype"

\* The options each runner's ArgumentParser declares.
ParserOptions(module) ==
    IF module = IngestModule
    THEN {"--source", "--from-loc", "--to-loc", "--from-date", "--to-date",
          "--from-time", "--to-time", "--days", "--toc"}
    ELSE IF module = RollupModule
    THEN {"--from-date", "--to-date", "--operator", "--from-loc", "--to-loc"}
    ELSE IF module = MetricsModule
    THEN {"--metric-date", "--origin", "--destination", "--operator",
          "--model-version", "--window-days", "--half-life-days",
          "--prior-strength"}
    ELSE {"--metric-date", "--model-version", "--window-days",
          "--half-life-days", "--prior-strength", "--operator", "--from-loc",
          "--to-loc"}

\* p.parse_args(): an option the parser does not declare ends the process
\* with status 2.
parse_args(module, options) == options \subseteq ParserOptions(module)

\* The table a metrics runner writes.
TableOf(module) ==
    IF module = DayTypeMetricsModule THEN "slot_metrics_daytype"
    ELSE "slot_metrics"

ingest_args(config) ==
    {"--source", "--from-loc", "--to-loc", "--from-date", "--to-date",
     "--from-time", "--to-time", "--days"}
    \cup (IF Len(config.toc) > 0 THEN {"--toc"} ELSE {})

rollup_args(config) ==
    {"--from-date", "--to-date", "--from-loc", "--to-loc"}
    \cup (IF Len(config.toc) = 1 THEN {"--operator"} ELSE {})

metrics_args ==
    {"--metric-date", "--from-loc", "--to-loc", "--model-version",
     "--window-days", "--half-life-days", "--prior-strength"}

RECURSIVE iter_date_chunks(_, _, _)
iter_date_chunks(start, end, chunk_days) ==
    IF start > end THEN <<>>
    ELSE LET chunk_end == IF start + (chunk_days - 1) < end
                          THEN start + (chunk_days - 1) ELSE end
         IN  <<(<<start, chunk_end>>)>>
             \o iter_date_chunks(chunk_end + 1, end, chunk_days)

BackfillConfigs ==
    {[from_loc |-> FromLoc, to_loc |-> ToLoc, day_modes |-> dm, toc |-> toc,
      chunk_days |-> cd, lookback_days |-> lb, model_version |-> mv,
      half_life_days |-> 0, prior_strength |-> 50] :
        dm \in {<<"WEEKDAY">>, <<"WEEKDAY", "SATURDAY", "SUNDAY">>},
        toc \in {<<>>, <<"GW">>},
        cd \in {1, 2},
        lb \in 0..3,
        mv \in {"v1", "v1_daytype"}}

\* What the provider holds: one late GW service at 08:10 on every day.
ProviderEvents(from_date, to_date, day_mode) ==
    {CanonicalServiceEvent(d, "GW", 490, 0, "late") :
        d \in {x \in from_date..to_date :
                  dow_to_day_type(day_of_week(x)) = day_mode}}

RECURSIVE LoadSet(_, _, _)
LoadSet(table, evs, source_run_id) ==
    IF evs = {} THEN table
    ELSE LET ev == CHOOSE e \in evs :
                       \A o \in evs : e.service_date <= o.service_date
         IN  LoadSet(InsertOnConflictDoNothing(
                         table, RawServiceEvent(ev, source_run_id)),
                     evs \ {ev}, source_run_id)

BackfillChunk == backfill.chunks[backfill.chunk]

BackfillDayMode == backfill.config.day_modes[backfill.mode]

\* backfill(config) up to the first subprocess
BackfillStart(config) ==
    /\ backfill.pc = "idle"
    /\ LET chunks == iter_date_chunks(today - config.lookback_days,
                                      today - 1, config.chunk_days)
       IN  backfill' =
              [pc |-> IF Len(chunks) = 0 THEN "metrics" ELSE "ingest",
               config |-> config, chunks |-> chunks, mode |-> 1,
               chunk |-> 1, log |-> <<>>]
    /\ UNCHANGED <<sessions, reader>>
    /\ UNCHANGED <<storeVars, httpVars, ledgerVars, metricsVars, ingestVars,
                   servingVars>>

\* run_module("app.jobs.ingest.run_ingest", ingest_args): the job loads the
\* chunk's services of the day mode, or ends with a status other than 0.
BackfillIngest(ok) ==
    /\ backfill.pc = "ingest"
    /\ LET accepted == parse_args(IngestModule, ingest_args(backfill.config))
           done == ok /\ accepted
       IN  /\ backfill' =
                 [backfill EXCEPT
                     !.pc = IF done THEN "rollup" ELSE "raised",
                     !.log = Append(@, [module |-> IngestModule,
                                        mode |-> backfill.mode,
                                        chunk |-> backfill.chunk,
                                        returncode |->
                                            IF done THEN 0
                                            ELSE IF accepted THEN 1 ELSE 2])]
           /\ raw' = IF done
                     THEN LoadSet(raw,
                                  ProviderEvents(BackfillChunk[1],
                                                 BackfillChunk[2],
                                                 BackfillDayMode),
                                  run_id)
                     ELSE raw
    /\ UNCHANGED <<agg, lpc, events, li, inserted, skipped, run_id, submitted,
                   uncommitted, lastResult, lastOp>>
    /\ UNCHANGED <<sessions, reader>>
    /\ UNCHANGED <<httpVars, ledgerVars, metricsVars, ingestVars, servingVars>>

\* run_module("app.jobs.rollup.run_daily_slot_agg", rollup_args), then the
\* next chunk, the next day mode, or the metrics step.
BackfillRollup(ok) ==
    /\ backfill.pc = "rollup"
    /\ LET accepted == parse_args(RollupModule, rollup_args(backfill.config))
           done == ok /\ accepted
           last_chunk == backfill.chunk = Len(backfill.chunks)
           last_mode == backfill.mode = Len(backfill.config.day_modes)
           p == [from_date |-> BackfillChunk[1],
                 to_date |-> BackfillChunk[2],
                 operator |-> IF Len(backfill.config.toc) = 1
                              THEN Some(backfill.config.toc[1]) ELSE None,
                 origin |-> Some(backfill.config.from_loc),
                 destination |-> Some(backfill.config.to_loc)]
       IN  /\ backfill' =
                 [backfill EXCEPT
                     !.pc = IF ~done THEN "raised"
                            ELSE IF last_chunk /\ last_mode THEN "metrics"
                            ELSE "ingest",
                     !.chunk = IF ~done THEN @
                               ELSE IF last_chunk THEN 1 ELSE @ + 1,
                     !.mode = IF done /\ last_chunk /\ ~last_mode
                              THEN @ + 1 ELSE @,
                     !.log = Append(@, [module |-> RollupModule,
                                        mode |-> backfill.mode,
                                        chunk |-> backfill.chunk,
                                        returncode |->
                                            IF done THEN 0
                                            ELSE IF accepted THEN 1 ELSE 2])]
           /\ agg' = IF done
                     THEN UpsertDailySlotAgg(agg, GroupedCounts(raw, p))
                     ELSE agg
    /\ UNCHANGED <<raw, lpc, events, li, inserted, skipped, run_id, submitted,
                   uncommitted, lastResult, lastOp>>
    /\ UNCHANGED <<sessions, reader>>
    /\ UNCHANGED <<httpVars, ledgerVars, metricsVars, ingestVars, servingVars>>

\* run_module("app.jobs.compute_slot_metrics.run_compute_slot_metrics",
\* metrics_args) and the return of backfill(config).
BackfillMetrics ==
    /\ backfill.pc = "metrics"
    /\ LET accepted == parse_args(MetricsModule, metrics_args)
           run == [metric_date |-> today,
                   model_version |-> backfill.config.model_version,
                   window_days |-> backfill.config.lookback_days,
                   half_life_days |-> backfill.config.half_life_days,
                   prior_strength |-> backfill.config.prior_strength,
                   operator |-> None,
                   origin |-> Some(backfill.config.from_loc),
                   destination |-> Some(backfill.config.to_loc)]
           written == SlotMetricRows(agg, run)
       IN  /\ backfill' =
                 [backfill EXCEPT
                     !.pc = IF accepted THEN "returned" ELSE "raised",
                     !.log = Append(@, [module |-> MetricsModule,
                                        mode |-> 0, chunk |-> 0,
                                        returncode |->
                                            IF accepted THEN 0 ELSE 2])]
           /\ slot_metrics_daytype' =
                 IF accepted /\ TableOf(MetricsModule) = "slot_metrics_daytype"
                 THEN [k \in DOMAIN slot_metrics_daytype \cup DOMAIN written |->
                          IF k \in DOMAIN written THEN written[k]
                          ELSE slot_metrics_daytype[k]]
                 ELSE slot_metrics_daytype
           /\ metricsCommitted' =
                 IF accepted /\ TableOf(MetricsModule) = "slot_metrics"
                 THEN [k \in DOMAIN metricsCommitted
                             \cup {<<"slot_metrics", n>> :
                                     n \in 1..Cardinality(DOMAIN written)} |->
                          [run |-> 1]]
                 ELSE metricsCommitted
    /\ UNCHANGED <<today, scored, query, reply>>
    /\ UNCHANGED <<mpc, mrun, variant, commit, slot_count, operators_seen,
                   slots_written, metrics>>
    /\ UNCHANGED <<sessions, reader>>
    /\ UNCHANGED <<storeVars, httpVars, ledgerVars, ingestVars>>

BackfillOver == backfill.pc \in {"returned", "raised"}

BackfillQueries ==
    {[from_loc |-> FromLoc, to_loc |-> ToLoc, date_str |-> Some(d),
      arrive_by |-> Some(900), operator |-> None,
      window_minutes |-> 60, min_services |-> 1] : d \in 176..178}

InitBackfill ==
    /\ InitConcurrent
    /\ InitHttp /\ retries = MaxRetries /\ InitLedger /\ InitMetrics
    /\ InitIngest
    /\ raw = <<>>
    /\ agg = << >>
    /\ lpc = "idle"
    /\ events = <<>>
    /\ li = 0
    /\ inserted = 0
    /\ skipped = 0
    /\ run_id = 1
    /\ submitted = 0
    /\ uncommitted = 0
    /\ lastResult = [total |-> 0, inserted |-> 0, skipped |-> 0]
    /\ lastOp = [kind |-> "none", p |-> None, n |-> 0]
    /\ slot_metrics_daytype = << >>
    /\ today = 176
    /\ scored = [fn |-> "none"]
    /\ query = [date_str |-> None]
    /\ reply = [status_code |-> 0, body |-> <<>>]

NextBackfill ==
    \/ \E config \in BackfillConfigs : BackfillStart(config)
    \/ \E ok \in BOOLEAN : BackfillIngest(ok)
    \/ \E ok \in BOOLEAN : BackfillRollup(ok)
    \/ BackfillMetrics
    \/ \E q \in BackfillQueries : BackfillOver /\ get_reliability(q)

SpecBackfill == InitBackfill /\ [][NextBackfill]_vars

(***************************************************************************)
(* Claims about the Loader and the Aggregator (checked under Spec).        *)
(***************************************************************************)
RowsWithKey(key) == {i \in DOMAIN raw : raw[i].service_key = key}

\* Rows that the running (or last) load created: its run identifier is fresh.
CreatedByRun == {i \in DOMAIN raw : raw[i].source_run_id = run_id}

OneRowPerSubmittedKey ==
    /\ \A j \in 1..li : Cardinality(RowsWithKey(events[j].service_key)) = 1
    /\ \A i, j \in DOMAIN raw :
          raw[i].service_key = raw[j].service_key => i = j

ResubmissionIsSkipped ==
    (/\ lpc = "loop"
     /\ li' = li + 1
     /\ HasKey(raw, events[li + 1].service_key))
    => (raw' = raw /\ skipped' = skipped + 1 /\ inserted' = inserted)

\* C1: submitting an event whose key is already stored (the same event a
\* second time, in the same batch or in a later one) stores nothing and adds
\* exactly one to the skip count, and every submitted key has exactly one row.
C1_IdempotentLoad ==
    [](OneRowPerSubmittedKey) /\ [][ResubmissionIsSkipped]_vars

\* The same event twice in one batch, both processed.
C1_Witness ==
    /\ lpc = "loop"
    /\ li = 2
    /\ events[1] = events[2]
    /\ skipped >= 1
    /\ Cardinality(RowsWithKey(events[2].service_key)) = 1

\* C2: the dict load_events returns has total = events submitted, inserted =
\* events that created a row, skipped = events whose key was already stored,
\* and inserted + skipped = total.
C2_ReturnedCounts ==
    (lpc = "loop" /\ li = Len(events)) =>
        /\ ReturnValue.total = Len(events)
        /\ ReturnValue.inserted = Cardinality(CreatedByRun)
        /\ ReturnValue.skipped = Len(events) - Cardinality(CreatedByRun)
        /\ ReturnValue.inserted + ReturnValue.skipped = ReturnValue.total

\* C3: no step updates or deletes a stored raw_service_events row.
C3_StoredRowsImmutable ==
    [][\A i \in DOMAIN raw : i \in DOMAIN raw' /\ raw'[i] = raw[i]]_vars

\* An event was loaded whose key is stored by an earlier run with another
\* outcome (cancelled flag, actual arrival, delay).
C3_Witness ==
    /\ lpc = "loop"
    /\ li >= 1
    /\ \E i \in DOMAIN raw :
          /\ raw[i].service_key = events[li].service_key
          /\ raw[i].source_run_id # run_id
          /\ raw[i].cancelled # events[li].cancelled
          /\ raw[i].actual_arrival_ts # events[li].actual_arrival_ts
          /\ raw[i].arrival_delay_minutes # events[li].arrival_delay_minutes

\* C9: a rollup that runs directly after the same rollup (same range and
\* filters, no load in between) leaves daily_slot_agg exactly as it was.
C9_IdempotentRollup ==
    [][(/\ lastOp.kind = "rollup"
        /\ lastOp'.kind = "rollup"
        /\ lastOp'.p = lastOp.p
        /\ lastOp'.n = 2) => agg' = agg]_vars

\* The same rollup ran twice over a group of two services.
C9_Witness ==
    /\ lastOp.kind = "rollup"
    /\ lastOp.n = 2
    /\ \E k \in DOMAIN agg : agg[k].n_services = 2

StoredInGroup(k) == {i \in DOMAIN raw : GroupKey(raw[i]) = k}

\* C10: every daily_slot_agg row has n_disrupted = n_cancelled +
\* n_delayed_gt5 with all three between 0 and n_services, and right after a
\* rollup every group in its scope has a row whose n_services is the number
\* of stored events of that group.
C10_AggregateCounts ==
    /\ \A k \in DOMAIN agg :
          /\ agg[k].n_disrupted = agg[k].n_cancelled + agg[k].n_delayed_gt5
          /\ 0 <= agg[k].n_cancelled /\ agg[k].n_cancelled <= agg[k].n_services
          /\ 0 <= agg[k].n_delayed_gt5
          /\ agg[k].n_delayed_gt5 <= agg[k].n_services
          /\ 0 <= agg[k].n_disrupted /\ agg[k].n_disrupted <= agg[k].n_services
    /\ lastOp.kind = "rollup" =>
          \A i \in DOMAIN raw :
             InRollupScope(raw[i], lastOp.p) =>
                /\ GroupKey(raw[i]) \in DOMAIN agg
                /\ agg[GroupKey(raw[i])].n_services =
                      Cardinality(StoredInGroup(GroupKey(raw[i])))

\* A rolled-up group holding one cancelled and one late service.
C10_Witness ==
    /\ lastOp.kind = "rollup"
    /\ \E k \in DOMAIN agg :
          /\ agg[k].n_services = 2
          /\ agg[k].n_cancelled = 1
          /\ agg[k].n_delayed_gt5 = 1
          /\ agg[k].n_disrupted = 2

(***************************************************************************)
(* Claims about post_with_retry (checked under SpecHttp).                  *)
(***************************************************************************)
\* A failure the retry policy names: a status in RETRY_STATUSES or a
\* connect/read timeout.
ListedRetryable(e) ==
    \/ (e.type = "HTTPStatusError" /\ e.status \in RETRY_STATUSES)
    \/ e.type \in {"ReadTimeout", "ConnectTimeout"}

\* A response status that is neither 2xx nor in RETRY_STATUSES.
NonRetryableStatus(e) ==
    e.type = "HTTPStatusError" /\ e.status \notin RETRY_STATUSES

\* C4 as stated: another attempt follows a failed one exactly when the
\* failure was a status in RETRY_STATUSES or a connect/read timeout and
\* attempts remain; every other failure ends the call at once.
C4_RetryOnlyListedFailures ==
    /\ (hpc = "request" /\ attempt > 1) =>
          (last_err # None /\ ListedRetryable(last_err[1]))
    /\ (hpc = "raised" /\ last_err # None) =>
          IF ListedRetryable(last_err[1])
          THEN last_err[1].attempt = retries
          ELSE nreq = last_err[1].attempt
               /\ Len(sleeps) = last_err[1].attempt - 1

\* C4 amended: another attempt follows a failed one exactly when attempts
\* remain and the failure is not a response status outside RETRY_STATUSES
\* (so also after any other exception); a non-2xx status outside
\* RETRY_STATUSES ends the call at once, with no further request and no
\* backoff sleep after it.
C4_RetryUnlessNonRetryableStatus ==
    /\ (hpc = "request" /\ attempt > 1) =>
          /\ last_err # None
          /\ ~NonRetryableStatus(last_err[1])
          /\ last_err[1].attempt = attempt - 1
          /\ attempt <= retries
    /\ (hpc = "raised" /\ last_err # None) =>
          IF NonRetryableStatus(last_err[1])
          THEN /\ nreq = last_err[1].attempt
               /\ Len(sleeps) = last_err[1].attempt - 1
               /\ raised = last_err
          ELSE /\ last_err[1].attempt = retries
               /\ nreq = retries

\* A retried failure followed by a non-retryable status on the second attempt.
C4_Witness ==
    /\ hpc = "raised"
    /\ last_err # None
    /\ NonRetryableStatus(last_err[1])
    /\ last_err[1].attempt = 2
    /\ nreq = 2
    /\ Len(sleeps) = 1

\* The call ended by raising although no attempt hit a non-retryable status.
Exhausted ==
    /\ hpc = "raised"
    /\ (last_err = None \/ ~NonRetryableStatus(last_err[1]))

ReturnsOnlySuccess ==
    hpc = "returned" =>
        /\ response # None
        /\ response[1].type = "response"
        /\ is_success(response[1].status)
        /\ raised = None

\* C5 as stated: for every cfg.retries = N, when all attempts fail with a
\* retryable outcome exactly N requests were issued and the error raised is
\* that of the last attempt; a value is returned only for a successful
\* response.
C5_ExhaustionAnyRetries ==
    /\ Exhausted =>
          /\ nreq = retries
          /\ last_err # None
          /\ raised = last_err
          /\ last_err[1].attempt = nreq
    /\ ReturnsOnlySuccess

\* C5 amended: the same for every N >= 1; for N <= 0 no request is issued
\* and the call raises the TypeError of "raise None".
C5_ExhaustionPositiveRetries ==
    /\ (Exhausted /\ retries >= 1) =>
          /\ nreq = retries
          /\ last_err # None
          /\ raised = last_err
          /\ last_err[1].attempt = nreq
    /\ (Exhausted /\ retries < 1) =>
          /\ nreq = 0
          /\ raised = Some(RaiseNone)
    /\ ReturnsOnlySuccess

\* All of three attempts failed with a retryable outcome.
C5_Witness ==
    /\ Exhausted
    /\ retries = 3
    /\ nreq = 3
    /\ raised = last_err
    /\ last_err[1].attempt = 3

(***************************************************************************)
(* Claims about the ingest and metrics jobs (checked under SpecJobs).      *)
(***************************************************************************)
IngestEnded == ipc \in {"returned", "raised"}

IngestFailed ==
    /\ ipc = "raised"
    /\ irun \in DOMAIN ledger
    /\ ledger[irun].status = "fail"

\* C6 as stated: when the retry budget of any provider request of an ingest
\* run, a serviceMetrics chunk or a serviceDetails request, was exhausted,
\* the run ends with ledger status fail and the error raised to the caller.
C6_ExhaustionFailsRun ==
    (IngestEnded /\ (budget_exhausted.metrics > 0
                     \/ budget_exhausted.details > 0))
        => IngestFailed

\* C6 amended: an exhausted serviceMetrics chunk ends the run as a job
\* failure (ledger status fail, error raised to the caller) with no further
\* provider request; an exhausted serviceDetails request is caught, counted
\* in details_failed, and the run goes on to the remaining RIDs and the load,
\* where it can end with status success.
C6_ChunkExhaustionFailsRun ==
    /\ budget_exhausted.metrics > 0 =>
          /\ budget_exhausted.metrics = 1
          /\ ipc \in {"except", "raised"}
          /\ hpc = "idle"
          /\ ipc = "raised" => IngestFailed
    /\ budget_exhausted.details <= details_failed
    /\ (ipc = "raised" /\ budget_exhausted.metrics = 0) =>
          ierror \in {"RuntimeError", "HTTPStatusError", "OperationalError",
                      "BrokenPipeError"}
    /\ (ipc \in {"details", "detail", "load", "print", "returned"}) =>
          idx = details_fetched + details_failed + invalid_skipped

\* A run that ended with status success although a serviceDetails request
\* ran out of attempts; and a chunk's exhaustion that failed the run.
C6_Witness ==
    \/ /\ ipc = "returned"
       /\ ledger[irun].status = "success"
       /\ budget_exhausted.details > 0
       /\ details_fetched > 0
    \/ /\ IngestFailed
       /\ budget_exhausted.metrics = 1
       /\ req_idx = 2

\* The statuses committed for a run, in commit order.
RECURSIVE StatusesOf(_, _)
StatusesOf(log, run) ==
    IF log = <<>> THEN <<>>
    ELSE IF Head(log)[1] = run
         THEN <<Head(log)[2]>> \o StatusesOf(Tail(log), run)
    ELSE StatusesOf(Tail(log), run)

\* C8: a run commits its ledger record with status running before it loads
\* or fetches anything; the record then moves exactly once to a terminal
\* status: success when the run returns normally, fail exactly when the
\* error is re-raised to the caller; no run ends with status running and no
\* record leaves a terminal status.
C8_LedgerLifecycle ==
    /\ \A run \in DOMAIN ledger :
          StatusesOf(ledgerLog, run) \in
              {<<"running">>, <<"running", "success">>, <<"running", "fail">>}
    /\ ipc \notin {"idle"} => irun \in DOMAIN ledger
    /\ mpc \notin {"idle"} => mrun \in DOMAIN ledger
    /\ ipc = "returned" => ledger[irun].status = "success"
    /\ mpc = "returned" => ledger[mrun].status = "success"
    /\ ipc = "raised" <=>
          (irun \in DOMAIN ledger /\ ledger[irun].status = "fail")
    /\ mpc = "raised" <=>
          (mrun \in DOMAIN ledger /\ ledger[mrun].status = "fail")
    /\ (ipc = "idle" /\ mpc = "idle") => (nreq = 0 /\ raw = <<>>)

(***************************************************************************)
(* Claims about the WindowPlanner and the chunked fetch (SpecPlanner).     *)
(***************************************************************************)
\* time_windows has returned its list.
WindowsReturned == ipc \in {"metrics", "chunk", "details"}

\* from_time and to_time are times of day, from_time the earlier.
ProperRange ==
    /\ args # None
    /\ ValidClock(parse_hhmm(args[1].from_time))
    /\ ValidClock(parse_hhmm(args[1].to_time))
    /\ MinuteOfDay(parse_hhmm(args[1].from_time))
          < MinuteOfDay(parse_hhmm(args[1].to_time))

\* The windows run from from_time to to_time in order, each ending where
\* the next starts, none longer than the step.
CoversRange ==
    /\ Len(windows) >= 1
    /\ windows[1][1] = args[1].from_time
    /\ windows[Len(windows)][2] = args[1].to_time
    /\ \A i \in 1..(Len(windows) - 1) : windows[i][2] = windows[i + 1][1]
    /\ \A i \in 1..Len(windows) :
          LET s == MinuteOfDay(parse_hhmm(windows[i][1]))
              e == MinuteOfDay(parse_hhmm(windows[i][2]))
          IN  s < e /\ e - s <= args[1].metrics_window_minutes

IsPlannedDate(d) ==
    /\ d >= args[1].from_date
    /\ d <= args[1].to_date
    /\ (args[1].metrics_filter_weekdays /\ args[1].days = "WEEKDAY")
          => day_of_week(d) \notin {0, 6}

RECURSIVE Flatten(_)
Flatten(lists) ==
    IF lists = <<>> THEN <<>> ELSE Head(lists) \o Flatten(Tail(lists))

\* The fetch has returned its merged list.
FetchReturned == ipc = "details"

\* C12: fetch_service_metrics_chunked issues exactly one request per (date,
\* window) pair of the planned dates and windows, one at a time, dates in
\* order and within a date the windows in order; the list it returns is the
\* concatenation of the chunk results in request order; with day-type
\* WEEKDAY and weekday filtering on no request is for a Saturday or Sunday.
C12_ChunkedFetch ==
    /\ \A i \in 1..Len(payloads) :
          /\ IsPlannedDate(payloads[i][1])
          /\ \E w \in 1..Len(windows) :
                windows[w] = <<payloads[i][2], payloads[i][3]>>
    /\ \A i, j \in 1..Len(payloads) :
          i < j =>
             \/ payloads[i][1] < payloads[j][1]
             \/ /\ payloads[i][1] = payloads[j][1]
                /\ MinuteOfDay(parse_hhmm(payloads[i][2]))
                      < MinuteOfDay(parse_hhmm(payloads[j][2]))
    /\ Len(payloads) - Len(chunk_results) \in {0, 1}
    /\ Len(payloads) > Len(chunk_results) =>
          ipc \in {"chunk", "except", "raised"}
    /\ hpc # "idle" => Len(payloads) = Len(chunk_results) + 1
    /\ merged_services = Flatten(chunk_results)
    /\ FetchReturned =>
          /\ \A d \in args[1].from_date..args[1].to_date :
                IsPlannedDate(d) =>
                   \A w \in 1..Len(windows) :
                      \E i \in 1..Len(payloads) :
                         payloads[i] = <<d, windows[w][1], windows[w][2]>>
          /\ Len(payloads) = Len(windows) *
                Cardinality({d \in args[1].from_date..args[1].to_date :
                                IsPlannedDate(d)})

\* Friday to Saturday under the weekday filter, half an hour in two windows:
\* both requests are for the Friday, and the two results are merged in order.
C12_Witness ==
    /\ FetchReturned
    /\ args[1].from_date = 5 /\ args[1].to_date = 6
    /\ payloads = <<<<5, 630, 650>>, <<5, 650, 700>>>>
    /\ Len(chunk_results[1]) = 2
    /\ Len(chunk_results[2]) = 1
    /\ Len(merged_services) = 3

(***************************************************************************)
(* Claims about the EventNormalizer in the details loop (SpecJobs).        *)
(***************************************************************************)
\* The step handles the response of a serviceDetails request.
DetailHandled == ipc = "detail" /\ hpc = "returned" /\ ipc' = "details"

\* A time text that is there but is no time of day.
NoClock(hhmm) ==
    hhmm # None /\ (hhmm[1] < 0 \/ ~ValidClock(parse_hhmm(hhmm[1])))

\* What is wrong with the record of RID rid, looked at in the order date,
\* corridor rows, scheduled departure, arrivals: "missing" (no date, no
\* origin or destination row, no scheduled departure), "malformed" (a date
\* or a time that is present and cannot be read), or "none".
QualityOf(data, rid) ==
    LET tpl == TemplateOf(service_templates, rid)
        o == FindLocation(data.locations, FromLoc)
        d == FindLocation(data.locations, ToLoc)
    IN  IF data.date_of_service = None THEN "missing"
        ELSE IF data.date_of_service = Malformed THEN "malformed"
        ELSE IF o = None \/ d = None THEN "missing"
        ELSE IF OrElse(o[1].gbtt_ptd, tpl.gbtt_ptd) = None THEN "missing"
        ELSE IF \/ NoClock(OrElse(o[1].gbtt_ptd, tpl.gbtt_ptd))
                \/ NoClock(OrElse(d[1].gbtt_pta, tpl.gbtt_pta))
                \/ NoClock(d[1].actual_ta)
             THEN "malformed"
        ELSE "none"

SkippedAsInvalid ==
    /\ invalid_skipped' = invalid_skipped + 1
    /\ details_failed' = details_failed
    /\ details_fetched' = details_fetched
    /\ ievents' = ievents

CountedAsFailed ==
    /\ details_failed' = details_failed + 1
    /\ invalid_skipped' = invalid_skipped
    /\ details_fetched' = details_fetched
    /\ ievents' = ievents

ArrivalDate(dep, minute) ==
    IF minute < dep.min THEN dep.date + 1 ELSE dep.date

RolledToNextDay(ev) ==
    /\ ev.scheduled_departure_ts.date = ev.service_date
    /\ ev.scheduled_arrival_ts # None =>
          /\ ~Before(ev.scheduled_arrival_ts[1], ev.scheduled_departure_ts)
          /\ ev.scheduled_arrival_ts[1].date =
                ArrivalDate(ev.scheduled_departure_ts,
                            ev.scheduled_arrival_ts[1].min)
    /\ ev.actual_arrival_ts # None =>
          /\ ~Before(ev.actual_arrival_ts[1], ev.scheduled_departure_ts)
          /\ ev.actual_arrival_ts[1].date =
                ArrivalDate(ev.scheduled_departure_ts,
                            ev.actual_arrival_ts[1].min)
    /\ (ev.scheduled_arrival_ts # None /\ ev.actual_arrival_ts # None) =>
          ev.arrival_delay_minutes =
             Some((ev.actual_arrival_ts[1].date
                      - ev.scheduled_arrival_ts[1].date) * 1440
                  + ev.actual_arrival_ts[1].min
                  - ev.scheduled_arrival_ts[1].min)

\* C14: an arrival, scheduled or actual, whose HHMM is strictly earlier than
\* the departure's is placed on the following calendar day before the delay
\* is computed, and one equal to the departure is not: every emitted event
\* has its arrivals at or after the scheduled departure, and the times of
\* the event are those of the record.
C14_MidnightRollover ==
    /\ [](\A i \in 1..Len(ievents) : RolledToNextDay(ievents[i]))
    /\ [][(DetailHandled /\ Len(ievents') > Len(ievents)) =>
             LET ev == ievents'[Len(ievents')]
                 d == FindLocation(details_json'[1].locations, ToLoc)[1]
             IN  /\ d.actual_ta # None =>
                       ev.actual_arrival_ts[1].min =
                          MinuteOfDay(parse_hhmm(d.actual_ta[1]))
                 /\ d.gbtt_pta # None =>
                       ev.scheduled_arrival_ts[1].min =
                          MinuteOfDay(parse_hhmm(d.gbtt_pta[1]))]_vars

\* The 23:50 departure due 00:10 that arrived in the minute of its
\* departure: the scheduled arrival is on the next day, the actual is not.
C14_Witness ==
    \E i \in 1..Len(ievents) :
        /\ ievents[i].scheduled_departure_ts = Timestamp(5, 1430, 0)
        /\ ievents[i].scheduled_arrival_ts = Some(Timestamp(6, 10, 0))
        /\ ievents[i].actual_arrival_ts = Some(Timestamp(5, 1430, 0))
        /\ ievents[i].arrival_delay_minutes = Some(0 - 20)

(***************************************************************************)
(* Claims about the metrics runs (checked under SpecMetrics).              *)
(***************************************************************************)
\* The committed metric rows that run wrote.
RowsOfRun(run) ==
    {k \in DOMAIN metricsCommitted : metricsCommitted[k].run = run}

MetricsFailed == mrun \in DOMAIN ledger /\ ledger[mrun].status = "fail"

\* The keys of the first n groups the run wrote.
FirstSlots(n) == {<<variant, g>> : g \in 1..n}

ScoreCall == scored.fn = "compute_slot_metric"

SmoothCall == scored.fn = "beta_binomial_smooth"

InUnitRange(p) == Le(Frac(0, 1), p) /\ Le(p, Frac(1, 1))

\* r is the integer nearest to 100 x (1 - p), the even one of the two when
\* 100 x (1 - p) lies halfway between them.
NearestToScore(r, p) ==
    LET off == r * p[2] - 100 * (p[2] - p[1])
        distance == IF off < 0 THEN 0 - off ELSE off
    IN  \/ 2 * distance < p[2]
        \/ 2 * distance = p[2] /\ r % 2 = 0

ScoreRule(computed) ==
    LET p == computed.disruption_prob
        score == computed.reliability_score
    IN  /\ score \in 0..100
        /\ \E r \in (0 - 1000)..1000 :
              /\ NearestToScore(r, p)
              /\ score = IF r > 100 THEN 100 ELSE IF r < 0 THEN 0 ELSE r
        /\ InUnitRange(p) => NearestToScore(score, p)

\* Two calls in a row: the later one has the higher disruption_prob.
ScoreNotHigher ==
    (/\ ScoreCall
     /\ scored'.fn = "compute_slot_metric"
     /\ Le(scored.value.disruption_prob, scored'.value.disruption_prob))
    => scored'.value.reliability_score <= scored.value.reliability_score

\* C18: the reliability_score that compute_slot_metric returns, which both
\* metrics runs write unchanged, is an integer in 0..100 and is
\* round(100 x (1 - disruption_prob)) clamped to that range, the rounded
\* value itself for a disruption_prob in [0,1]; and of two calls, the one
\* with the higher disruption_prob never has the higher score.
C18_ReliabilityScore ==
    /\ [](ScoreCall => ScoreRule(scored.value))
    /\ [][ScoreNotHigher]_vars

\* A prior of 1/4 at strength 10 with 2 disrupted of 2 services gives
\* 4.5 / 12 = 3/8, and 62.5 is rounded to the even 62.
C18_Witness ==
    /\ ScoreCall
    /\ scored.value.disruption_prob = <<3, 8>>
    /\ scored.value.reliability_score = 62

\* C19 as stated: whatever its arguments, beta_binomial_smooth returns a
\* value in [0,1].
C19_SmoothedInUnitRange == SmoothCall => InUnitRange(scored.value)

\* C19, amended: with trials <= 0 beta_binomial_smooth returns prior_p
\* clamped to [0,1]; with trials > 0 it returns the posterior mean of the
\* clamped prior, which lies in [0,1] when 0 <= successes <= trials; and
\* compute_slot_metric on weighted counts with 0 <= disrupted <= services
\* and 0 <= cancelled <= services returns two probabilities in [0,1].
C19_SmoothedInUnitRangeForCounts ==
    /\ (SmoothCall /\ Le(scored.trials, Frac(0, 1))) =>
          scored.value =
             (IF Lt(scored.prior_p, Frac(0, 1)) THEN Frac(0, 1)
              ELSE IF Lt(Frac(1, 1), scored.prior_p) THEN Frac(1, 1)
              ELSE scored.prior_p)
    /\ (SmoothCall /\ Lt(Frac(0, 1), scored.trials)) =>
          LET p == IF Lt(scored.prior_p, Frac(0, 1)) THEN Frac(0, 1)
                   ELSE IF Lt(Frac(1, 1), scored.prior_p) THEN Frac(1, 1)
                   ELSE scored.prior_p
              strength == IF Lt(scored.prior_strength, Frac(0, 1))
                          THEN Frac(0, 1) ELSE scored.prior_strength
          IN  /\ Times(scored.value, Plus(strength, scored.trials))
                    = Plus(Times(p, strength), scored.successes)
              /\ (/\ Le(Frac(0, 1), scored.successes)
                  /\ Le(scored.successes, scored.trials))
                 => InUnitRange(scored.value)
    /\ (/\ ScoreCall
        /\ Le(Frac(0, 1), scored.w_counts.w_disrupted)
        /\ Le(scored.w_counts.w_disrupted, scored.w_counts.w_services)
        /\ Le(Frac(0, 1), scored.w_counts.w_cancelled)
        /\ Le(scored.w_counts.w_cancelled, scored.w_counts.w_services))
       => /\ InUnitRange(scored.value.disruption_prob)
          /\ InUnitRange(scored.value.cancellation_prob)

\* A prior of 5/4 is clamped to 1: 1 of 2 at strength 10 gives 11/12.
C19_Witness ==
    /\ SmoothCall
    /\ scored.prior_p = <<5, 4>>
    /\ scored.successes = <<1, 1>>
    /\ scored.trials = <<2, 1>>
    /\ scored.value = <<11, 12>>

\* The last run was over the scenario's rows with half_life 30.
ScenarioRun ==
    /\ scored.fn = "compute_slot_metrics_daytype"
    /\ scored.run.half_life_days = 30
    /\ agg \in {ScenarioTable(TRUE), ScenarioTable(FALSE)}

\* The weekday rows it wrote for RDG to PAD.
ScenarioSlots ==
    {k \in DOMAIN slot_metrics_daytype :
        /\ k[1] = scored.run.metric_date
        /\ k[2] = scored.run.model_version
        /\ k[4] = FromLoc
        /\ k[5] = ToLoc
        /\ k[6] = "WEEKDAY"}

\* C20 as stated: in the scenario the slot's disruption_prob is strictly
\* above 10% and its reliability_score strictly below 90.
C20_ScenarioAboveRawRate ==
    ScenarioRun =>
        \A k \in ScenarioSlots :
            /\ Lt(Frac(1, 10), slot_metrics_daytype[k].disruption_prob)
            /\ slot_metrics_daytype[k].reliability_score < 90

\* C20, amended: in the scenario the operator prior is worked out from the
\* same rows and is the raw rate itself, so the run writes for the slot a
\* disruption_prob of exactly 10% and a reliability_score of 90.
C20_ScenarioAtRawRate ==
    ScenarioRun =>
        /\ ScenarioSlots # {}
        /\ \A k \in ScenarioSlots :
              /\ slot_metrics_daytype[k].disruption_prob = Frac(1, 10)
              /\ slot_metrics_daytype[k].reliability_score = 90

\* The run has written the one slot of the all-weekday scenario, from the
\* 49 rows of its window (the row of the metric date itself is outside).
C20_Witness ==
    /\ ScenarioRun
    /\ agg = ScenarioTable(TRUE)
    /\ \E k \in ScenarioSlots :
          /\ k[7] = <<8, 10>>
          /\ slot_metrics_daytype[k].confidence_band = "high"

(***************************************************************************)
(* QueryService: C15, C16, C17 under SpecQuery.                            *)
(***************************************************************************)
Replied == reply.status_code # 0

\* The date and the time of the query are of the expected form.
WellFormed(q) ==
    /\ q.date_str # Malformed
    /\ q.arrive_by # Malformed
    /\ q.arrive_by[1] \div 100 \in 0..23
    /\ q.arrive_by[1] % 100 \in 0..59

\* The day type of the query's date, from its day of week (0 is Sunday).
DayTypeOf(q) ==
    IF q.date_str[1] % 7 = 0 THEN "SUNDAY"
    ELSE IF q.date_str[1] % 7 = 6 THEN "SATURDAY"
    ELSE "WEEKDAY"

\* The daily rows that count towards the candidates of the query.
CountedRows(q) ==
    {k \in DOMAIN agg :
        /\ k[3] = q.from_loc /\ k[4] = q.to_loc
        /\ today - k[1] <= 90
        /\ dow_to_day_type(agg[k].day_of_week) = DayTypeOf(q)
        /\ q.operator # None => k[2] = q.operator[1]}

\* Minutes from midnight of the query's date to its desired arrival.
ArrivalMinute(q) ==
    60 * (q.arrive_by[1] \div 100) + (q.arrive_by[1] % 100)

\* The candidate departure times that lie in the window of the query.
WantedTimes(q) ==
    {hhmm \in {k[5] : k \in CountedRows(q)} :
        /\ SumServices(agg, {k \in CountedRows(q) : k[5] = hhmm})
              >= q.min_services
        /\ 60 * hhmm[1] + hhmm[2] <= ArrivalMinute(q)
        /\ 60 * hhmm[1] + hhmm[2] >= ArrivalMinute(q) - q.window_minutes}

\* The day-type metric rows of the query's corridor, day type and operator
\* at the latest metric_date of the table.
BaselineRows(q) ==
    {k \in DOMAIN slot_metrics_daytype :
        /\ \A other \in DOMAIN slot_metrics_daytype : other[1] <= k[1]
        /\ k[2] = "v1_daytype"
        /\ k[4] = q.from_loc /\ k[5] = q.to_loc
        /\ k[6] = DayTypeOf(q)
        /\ q.operator # None => k[3] = q.operator[1]}

\* C15: a query whose date or time is malformed is rejected with 400; any
\* other query fails with 500 exactly when slot_metrics_daytype holds no
\* row at all, and when rows exist but no candidate departure falls in the
\* window it is answered 200 with an empty list.
C15_QueryFailureModes ==
    Replied =>
        /\ reply.status_code \in {200, 400, 500}
        /\ ~WellFormed(query) => reply.status_code = 400
        /\ WellFormed(query) =>
              (reply.status_code = 500 <=> DOMAIN slot_metrics_daytype = {})
        /\ (/\ WellFormed(query)
            /\ DOMAIN slot_metrics_daytype # {}
            /\ WantedTimes(query) = {})
           => reply = [status_code |-> 200, body |-> <<>>]

\* A well-formed query against an empty slot_metrics_daytype got 500.
C15_Witness ==
    /\ reply.status_code = 500
    /\ WellFormed(query)
    /\ DOMAIN slot_metrics_daytype = {}
    /\ WantedTimes(query) # {}

\* C16: the result holds one entry per candidate dep_hhmm in the window
\* [arrival - window, arrival], both ends included, and no other, in
\* ascending order of departure time; an entry has coverage "slot" exactly
\* when a day-type metric row for its dep_hhmm exists at the latest
\* metric_date, and otherwise coverage "baseline_fallback" with
\* effective_sample_size 0 and confidence_band "low".
C16_ResultEntries ==
    (Replied /\ reply.status_code = 200) =>
        /\ Len(reply.body) = Cardinality(WantedTimes(query))
        /\ {reply.body[i].dep_hhmm : i \in DOMAIN reply.body}
              = WantedTimes(query)
        /\ \A i \in DOMAIN reply.body, j \in DOMAIN reply.body :
              i < j =>
                 reply.body[i].departure_time < reply.body[j].departure_time
        /\ \A i \in DOMAIN reply.body :
              LET entry == reply.body[i]
              IN  /\ entry.departure_time =
                        1440 * query.date_str[1] + 60 * entry.dep_hhmm[1]
                           + entry.dep_hhmm[2]
                  /\ entry.coverage \in {"slot", "baseline_fallback"}
                  /\ entry.coverage = "slot" <=>
                        \E k \in BaselineRows(query) : k[7] = entry.dep_hhmm
                  /\ entry.coverage = "baseline_fallback" =>
                        /\ entry.effective_sample_size = Frac(0, 1)
                        /\ entry.confidence_band = "low"

\* Arrival by 09:00 with a window of 60: 08:00, on the edge of the window,
\* is in the result, 08:10 has a slot row and 08:40 has none.
C16_Witness ==
    /\ reply.status_code = 200
    /\ query.arrive_by = Some(900)
    /\ query.window_minutes = 60
    /\ \E i \in DOMAIN reply.body, j \in DOMAIN reply.body,
          n \in DOMAIN reply.body :
          /\ reply.body[i].dep_hhmm = <<8, 0>>
          /\ reply.body[j].dep_hhmm = <<8, 10>>
          /\ reply.body[j].coverage = "slot"
          /\ reply.body[n].dep_hhmm = <<8, 40>>
          /\ reply.body[n].coverage = "baseline_fallback"

SameDayTypeRows(q, d) ==
    {a \in DOMAIN agg :
        /\ a[3] = q.from_loc
        /\ a[4] = q.to_loc
        /\ day_type_for_date(a[1]) = day_type_for_date(d)}

\* The candidates of the answered query are exactly the departure times of
\* the daily rows whose service_date has the day type of the queried date.
CandidatesOfDayType ==
    (reply.status_code = 200 /\ query.date_str # None) =>
        {reply.body[i].dep_hhmm : i \in DOMAIN reply.body}
            = {a[5] : a \in SameDayTypeRows(query, query.date_str[1])}

\* C21: the day type the engine stores with a metric row is that which
\* day_type_for_date gives for the service_date of the daily rows it was
\* computed from, and whenever a query for date d is answered its candidates
\* are exactly the departure times of the daily rows whose service_date has
\* d's day type.
C21_DayTypeConvention ==
    /\ [](\A k \in DOMAIN slot_metrics_daytype : \A a \in DOMAIN agg :
            (a[2] = k[3] /\ a[3] = k[4] /\ a[4] = k[5] /\ a[5] = k[7]) =>
                k[6] = day_type_for_date(a[1]))
    /\ [][(query' # query \/ reply' # reply) => CandidatesOfDayType']_vars

\* A query for a Sunday is answered from the metric row of the Sunday
\* service, and one for a weekday from those of the five weekday services.
C21_Witness ==
    /\ reply.status_code = 200
    /\ query.date_str = Some(182)
    /\ Len(reply.body) = 1
    /\ reply.body[1].dep_hhmm = <<8, 35>>
    /\ reply.body[1].coverage = "slot"
    /\ Cardinality({k \in DOMAIN slot_metrics_daytype :
                       k[6] = "WEEKDAY"}) = 5

(***************************************************************************)
(* Claims about the backoff sleeps of post_with_retry (checked under       *)
(* SpecHttp).                                                              *)
(***************************************************************************)
\* C22: a call that has ended after k attempts slept exactly k - 1 times,
\* once after each failed attempt but the last (the i-th sleep is that of
\* attempt i, of backoff_base * 2^(i-1) seconds plus the jitter), so no
\* sleep follows the final failed attempt before the error is raised.
C22_SleepOnlyBeforeRetry ==
    (hpc \in {"returned", "raised"} /\ nreq >= 1) =>
        /\ Len(sleeps) = nreq - 1
        /\ \A i \in DOMAIN sleeps : sleeps[i] = i

(***************************************************************************)
(* Claims about the window of a metrics run (checked under SpecCalendar).  *)
(***************************************************************************)
\* The daily rows of the slot of metric row k that are from 1 to
\* window_days days older than the metric_date of run.
RowsOfAge(k, run) ==
    {[service_date |-> a[1], n_services |-> agg[a].n_services] :
        a \in {x \in DOMAIN agg :
                  /\ x[2] = k[3] /\ x[3] = k[4] /\ x[4] = k[5] /\ x[5] = k[7]
                  /\ dow_to_day_type(agg[x].day_of_week) = k[6]
                  /\ run.metric_date - x[1] >= 1
                  /\ run.metric_date - x[1] <= run.window_days}}

\* The metric rows that the step has written anew or changed.
WrittenKeys ==
    {k \in DOMAIN slot_metrics_daytype' :
        \/ k \notin DOMAIN slot_metrics_daytype
        \/ slot_metrics_daytype'[k] # slot_metrics_daytype[k]}

\* C23: each metric row a run writes is computed from daily rows of its slot
\* aged 1 to window_days days and from no other row: such a row exists, and
\* the row's effective_sample_size is the weighted number of services of
\* those rows alone.
C23_RowsWithinWindow ==
    [][\A k \in WrittenKeys :
          /\ k[1] = scored'.run.metric_date
          /\ RowsOfAge(k, scored'.run) # {}
          /\ slot_metrics_daytype'[k].effective_sample_size =
                WeightedSum(RowsOfAge(k, scored'.run), "n_services",
                            scored'.run.metric_date,
                            scored'.run.half_life_days)]_vars

\* A run with a window of two days has written the rows of the two days
\* before metric_date only, with daily rows of metric_date and of the day
\* after it, and of a week back, in the table.
C23_Witness ==
    /\ scored.fn = "compute_slot_metrics_daytype"
    /\ scored.run.window_days = 2
    /\ {k[7] : k \in DOMAIN slot_metrics_daytype} = {<<8, 30>>, <<8, 35>>}
    /\ \E a \in DOMAIN agg : a[1] = 176
    /\ \E a \in DOMAIN agg : a[1] = 177
    /\ \E a \in DOMAIN agg : a[1] = 169

(***************************************************************************)
(* Claims about the counters of the details phase (checked under SpecJobs).*)
(***************************************************************************)
\* The number of distinct RIDs in the merged services.
UniqueRids ==
    Cardinality({RidAt(merged_services, ref) :
                    ref \in RidRefs(merged_services)})

\* The details loop is running or over.
InDetailsPhase == ipc \in {"details", "detail", "load", "print", "returned"}

\* The details loop is over: load_events was called.
DetailsOver == ipc \in {"load", "print", "returned"}

\* Every RID handled is counted once, the events kept for the Loader are
\* the fetched ones, and a run that got as far as the details loop fails
\* only by load_events or the final print raising.
CountedOnce ==
    /\ InDetailsPhase =>
          /\ details_fetched + details_failed + invalid_skipped = idx
          /\ Len(ievents) = details_fetched
    /\ ipc = "load" => events = ievents
    /\ (ipc \in {"except", "raised"} /\ rids # <<>>) =>
          ierror \in {"OperationalError", "BrokenPipeError"}

\* C24 as stated: the three counters add up to the number of RIDs processed,
\* which is min(unique RIDs, max_details) when max_details > 0 and the
\* number of unique RIDs otherwise; the Loader gets details_fetched events;
\* stopping early does not fail the run.
C24_DetailCounters ==
    /\ CountedOnce
    /\ DetailsOver =>
          idx = IF max_details > 0 /\ max_details < UniqueRids
                THEN max_details
                ELSE UniqueRids

\* C24 amended: the same, with no RID processed when max_details < 0.
C24_DetailCountersBySign ==
    /\ CountedOnce
    /\ DetailsOver =>
          idx = IF max_details < 0 THEN 0
                ELSE IF max_details > 0 /\ max_details < UniqueRids
                THEN max_details
                ELSE UniqueRids

\* A run over three distinct RIDs with max_details = 1 has succeeded after
\* one details request.
C24_Witness ==
    /\ ipc = "returned"
    /\ max_details = 1
    /\ UniqueRids = 3
    /\ idx = 1
    /\ details_fetched + details_failed + invalid_skipped = 1
    /\ ledger[irun].status = "success"

(***************************************************************************)
(* Claims about concurrent Loader runs (checked under SpecLoaders).        *)
(***************************************************************************)
\* The service keys of the batch of session s.
BatchKeys(s) ==
    {sessions[s].events[j].service_key : j \in DOMAIN sessions[s].events}

\* C25: no interleaving of the inserts and commits of two concurrent Loader
\* runs makes a run fail, and once both have returned every service key of
\* their batches is stored in exactly one row.
C25_ConcurrentLoads ==
    /\ \A s \in DOMAIN sessions : sessions[s].pc # "raised"
    /\ (\A s \in DOMAIN sessions : sessions[s].pc = "returned") =>
          \A s \in DOMAIN sessions : \A key \in BatchKeys(s) :
              Cardinality(RowsWithKey(key)) = 1

(***************************************************************************)
(* Claims about a query during a metrics run (checked under SpecPublish).  *)
(***************************************************************************)
\* The query selected the metric_date of the run, which has completed.
ReadNewMetricDate ==
    /\ reader.pc = "done"
    /\ reader.metric_date # None
    /\ mpc = "returned"

\* C26: a query that selected the new metric_date found the rows of all
\* the slots the completed run stores, so none of them got the baseline
\* fallback.
C26_NoneOrAllRows == ReadNewMetricDate => reader.rows = slot_count

\* C26 amended: the query found the rows of the first whole batches of 500
\* slots or all rows, and all rows when the run wrote at most 500 slots or
\* had commit disabled.
C26_CommittedBatchesOrAll ==
    /\ (reader.pc = "done" /\ reader.metric_date # None) =>
          \/ reader.rows = slot_count
          \/ /\ commit
             /\ reader.rows % MetricsCommitEvery = 0
             /\ reader.rows < slot_count
    /\ (ReadNewMetricDate /\ (slot_count <= MetricsCommitEvery \/ ~commit)) =>
          reader.rows = slot_count

\* A query selected the new metric_date and found the rows of the first
\* 500 of the slots the completed run stores.
C26_Witness ==
    /\ ReadNewMetricDate
    /\ reader.rows = MetricsCommitEvery
    /\ slot_count = MaxSlots

(***************************************************************************)
(* Claims about the metric_date of a query (checked under SpecQuery).      *)
(***************************************************************************)
\* The rows of the day-type model for the corridor of q at the latest
\* metric_date of the table, the one the query uses.
CorridorRowsAtLatest(q) ==
    {k \in DOMAIN slot_metrics_daytype :
        /\ \A other \in DOMAIN slot_metrics_daytype : other[1] <= k[1]
        /\ k[2] = "v1_daytype"
        /\ k[4] = q.from_loc /\ k[5] = q.to_loc}

\* C27: the metric_date used for an answered query with candidates holds
\* rows of the day-type model for the queried corridor, so no candidate is
\* reported with the baseline of an empty set of rows (disruption_prob 0,
\* reliability_score 100).
C27_MetricDateOfCorridor ==
    (reply.status_code = 200 /\ reply.body # <<>>) =>
        /\ CorridorRowsAtLatest(query) # {}
        /\ \A i \in DOMAIN reply.body :
              (/\ reply.body[i].coverage = "baseline_fallback"
               /\ reply.body[i].disruption_prob = Frac(0, 1)
               /\ reply.body[i].reliability_score = 100) =>
                  CorridorRowsAtLatest(query) # {}

(***************************************************************************)
(* Claims about the order of the two probabilities (checked under          *)
(* SpecCalendar).                                                          *)
(***************************************************************************)
\* C28: the daily rows the rollup writes count no more cancelled than
\* disrupted and no more disrupted than all services, and every metric row
\* computed from them has cancellation_prob <= disruption_prob.
C28_CancellationWithinDisruption ==
    /\ \A a \in DOMAIN agg :
          /\ agg[a].n_cancelled <= agg[a].n_disrupted
          /\ agg[a].n_disrupted <= agg[a].n_services
    /\ \A k \in DOMAIN slot_metrics_daytype :
          Le(slot_metrics_daytype[k].cancellation_prob,
             slot_metrics_daytype[k].disruption_prob)

\* The metric row of a late service has a cancellation probability above
\* zero, from the prior of its operator, and below its disruption
\* probability.
C28_Witness ==
    \E k \in DOMAIN slot_metrics_daytype :
        /\ k[7] = <<8, 35>>
        /\ Lt(Frac(0, 1), slot_metrics_daytype[k].cancellation_prob)
        /\ Lt(slot_metrics_daytype[k].cancellation_prob,
              slot_metrics_daytype[k].disruption_prob)


\* The subprocess that ran last.
LastStep == backfill.log[Len(backfill.log)]

MetricsStepRan ==
    /\ backfill.pc # "idle"
    /\ Len(backfill.log) > 0
    /\ LastStep.module = MetricsModule

\* Every rollup comes straight after the finished ingest of its own chunk,
\* and the metrics step comes once, after the last chunk of the last mode.
StepsInOrder ==
    \A i \in DOMAIN backfill.log :
        LET e == backfill.log[i]
        IN  /\ e.module = RollupModule =>
                 /\ i > 1
                 /\ backfill.log[i - 1] =
                       [module |-> IngestModule, mode |-> e.mode,
                        chunk |-> e.chunk, returncode |-> 0]
            /\ e.module = MetricsModule =>
                 /\ i = Len(backfill.log)
                 /\ i = 1 + 2 * Len(backfill.chunks)
                            * Len(backfill.config.day_modes)
                 /\ \A j \in 1..(i - 1) : backfill.log[j].returncode = 0

\* C29: a backfill runs, for every chunk, the ingest to completion before
\* that chunk's rollup and the metrics step once after all chunks; once the
\* metrics step has run over rolled-up days, the backfill has returned,
\* slot_metrics_daytype holds a metric date, and a later query for the
\* corridor is not answered 500 "not primed".
C29_BackfillPrimesQueries ==
    backfill.pc # "idle" =>
        /\ StepsInOrder
        /\ (MetricsStepRan /\ agg # << >>) =>
              /\ backfill.pc = "returned"
              /\ LatestMetricDate # None
              /\ reply.status_code # 500


\* from_time and to_time are times of day, from_time not the earlier.
EmptyRange ==
    /\ args # None
    /\ ValidClock(parse_hhmm(args[1].from_time))
    /\ ValidClock(parse_hhmm(args[1].to_time))
    /\ MinuteOfDay(parse_hhmm(args[1].from_time))
          >= MinuteOfDay(parse_hhmm(args[1].to_time))

\* No window and so no chunk request.
NoChunkRequests ==
    /\ windows = <<>>
    /\ total_requests = 0
    /\ payloads = <<>>

\* The loop has made at most one pass per minute between from_time and cur,
\* and cur has not passed to_time.
BoundedPasses ==
    LET start == MinuteOfDay(parse_hhmm(args[1].from_time))
        end == MinuteOfDay(parse_hhmm(args[1].to_time))
    IN  /\ cur >= start
        /\ Len(windows) <= cur - start
        /\ (start < end => cur <= end)

=============================================================================
